---- MODULE Spec2Model ----
(***************************************************************************)
(* A model of the masa-madre chatbot backend:                              *)
(*   - lib/conversation_history.py : ConversationHistory                   *)
(*   - api/semantic_search.py      : create_claude_qa_chain,               *)
(*                                   generate_chatbot_response             *)
(*   - api/chat_api.py             : sessions, init_chat, handle_message,  *)
(*                                   handle_feedback, request_support,     *)
(*                                   shopify_chat                          *)
(*   - lib/support_system_improved.py : SupportSystem                      *)
(*                                                                         *)
(* Python strings are sequences of code points; a code point is written as *)
(* a one-character string, a non-ASCII one by its name ("U+00F3").         *)
(* A Python dict is a function whose DOMAIN is the set of its keys.        *)
(***************************************************************************)
EXTENDS Integers, Sequences, FiniteSets, TLC

VARIABLES
    conv,       \* a ConversationHistory object used directly (the CLI's, a test's)
    added,      \* history variable: the exchanges handed to conv.add_exchange, in call order
    clock,      \* datetime.now(), as a logical clock
    calls,      \* how many calls of the core, or requests to the API, were made
    last,       \* the most recent call and what it returned
    sessions,   \* chat_api.sessions: user id -> ConversationHistory
    yielded,    \* history variable: message text -> the (user, detected_intent) pairs answered
    pc,         \* where the call in progress stands ("idle" between calls)
    events,     \* history variable: what the call in progress has done so far, in order
    tickets_file,  \* the list stored in support_tickets.json
    sent        \* the notification mails handed to the mail server, in order

vars == <<conv, added, clock, calls, last, sessions, yielded, pc, events,
          tickets_file, sent>>

(***************************************************************************)
(* Bounds of the model.                                                    *)
(***************************************************************************)
MaxHistoryArg == 2      \* max_history arguments explored: 1..MaxHistoryArg
MaxAdds == 3            \* add_exchange calls explored on one history
MaxSeed == 5            \* exchanges a history holds before the first call of the core
MaxCoreCalls == 1       \* generate_chatbot_response calls explored on one history
MaxRequests == 4        \* API requests explored
MaxSales == 3           \* sale records carried by one match
MaxThreads == 2         \* request threads running at the same time
MaxSupportRequests == 3 \* requests explored on the support endpoint alone
MaxProducts == 2        \* products a shop has synced

(***************************************************************************)
(* Text.                                                                   *)
(***************************************************************************)
Min(a, b) == IF a < b THEN a ELSE b

Max(a, b) == IF a > b THEN a ELSE b

\* s[:n] of Python, n of either sign
SlicePrefix(s, n) ==
    IF n >= 0 THEN SubSeq(s, 1, Min(n, Len(s)))
    ELSE SubSeq(s, 1, Max(Len(s) + n, 0))

\* n copies of the code point c
Repeat(c, n) == [i \in 1..n |-> c]

Digit(d) == SubSeq(<<"0","1","2","3","4","5","6","7","8","9">>, d + 1, d + 1)

RECURSIVE Decimal(_)
\* str(n) of a natural number, as the f-string {i} renders it
Decimal(n) == IF n < 10 THEN Digit(n) ELSE Decimal(n \div 10) \o Digit(n % 10)

\* needle in haystack
Contains(haystack, needle) ==
    \E i \in 0..(Len(haystack) - Len(needle)) :
        SubSeq(haystack, i + 1, i + Len(needle)) = needle

UpperCase == <<"A","B","C","D","E","F","G","H","I","J","K","L","M",
               "N","O","P","Q","R","S","T","U","V","W","X","Y","Z">>

LowerCase == <<"a","b","c","d","e","f","g","h","i","j","k","l","m",
               "n","o","p","q","r","s","t","u","v","w","x","y","z">>

LowerChar(c) ==
    IF \E i \in 1..Len(UpperCase) : UpperCase[i] = c
    THEN LowerCase[CHOOSE i \in 1..Len(UpperCase) : UpperCase[i] = c]
    ELSE c

\* str.lower()
Lower(s) == [i \in 1..Len(s) |-> LowerChar(s[i])]

WhiteSpace == {" ", "\n", "\t"}

RECURSIVE LStrip(_)
LStrip(s) == IF s # <<>> /\ Head(s) \in WhiteSpace THEN LStrip(Tail(s)) ELSE s

RECURSIVE RStrip(_)
RStrip(s) ==
    IF s # <<>> /\ s[Len(s)] \in WhiteSpace THEN RStrip(SubSeq(s, 1, Len(s) - 1)) ELSE s

\* str.strip()
Strip(s) == RStrip(LStrip(s))

(***************************************************************************)
(* lib/conversation_history.py : ConversationHistory                       *)
(***************************************************************************)
DEFAULT_MAX_HISTORY == 5

DEFAULT_MAX_CHARS == 1000

RESPONSE_PREVIEW == 200

CONTEXT_HEADER ==
    <<"U+1F4DC"," ","H","i","s","t","o","r","i","a","l"," ","d","e"," ","c","o","n","v","e","r",
      "s","a","c","i","U+00F3","n"," ","r","e","c","i","e","n","t","e",":","\n">>

USER_LABEL ==
    <<"."," ","U","s","u","a","r","i","o",":"," ">>

ASSISTANT_LABEL ==
    <<" "," "," ","A","s","i","s","t","e","n","t","e",":"," ">>

ELLIPSIS ==
    <<".",".",".">>

TRUNCATION_MARKER ==
    <<" ","[","t","r","u","n","c","a","d","o","]">>

\* ConversationHistory.__init__: the history starts empty; load_history_from_pinecone
\* adds nothing to it
NewHistory(max_history, use_pinecone) ==
    [max_history |-> max_history, use_pinecone |-> use_pinecone, history |-> <<>>]

\* the exchange dict built by add_exchange; sources is `sources or []`
Exchange(now, query, response, sources) ==
    [timestamp |-> now, query |-> query, response |-> response, sources |-> sources]

\* a wrong add_exchange: the window is never trimmed
AppendNoEviction(history, max_history, exchange) == Append(history, exchange)

\* a wrong add_exchange: list.pop() instead of list.pop(0)
AppendEvictNewest(history, max_history, exchange) ==
    LET appended == Append(history, exchange)
    IN  IF Len(appended) > max_history
        THEN SubSeq(appended, 1, Len(appended) - 1)
        ELSE appended

\* add_exchange on the list: append, then pop(0) when longer than max_history
AppendBounded(history, max_history, exchange) ==
    LET appended == Append(history, exchange)
    IN  IF Len(appended) > max_history THEN Tail(appended) ELSE appended

\* _save_to_pinecone: every failure of the mirror write is caught inside it
\* (except Exception, and a bare except around the error feedback); it returns
\* nothing and touches no field of the object
MirrorOutcomes(use_pinecone) == IF use_pinecone THEN {"saved", "failed"} ELSE {"skipped"}

\* the line of one exchange in get_context
ExchangeText(i, exchange) ==
    Decimal(i) \o USER_LABEL \o exchange.query \o <<"\n">>
    \o ASSISTANT_LABEL \o SlicePrefix(exchange.response, RESPONSE_PREVIEW)
    \o (IF Len(exchange.response) > RESPONSE_PREVIEW THEN ELLIPSIS ELSE <<>>)
    \o <<"\n">>

RECURSIVE Transcript(_, _)
\* the loop of get_context over enumerate(self.history, 1), from index i on
Transcript(history, i) ==
    IF i > Len(history) THEN <<>>
    ELSE ExchangeText(i, history[i]) \o Transcript(history, i + 1)

\* a wrong truncation: the marker is appended to the whole transcript
LimitNoSlice(context, max_chars) ==
    IF Len(context) > max_chars THEN context \o TRUNCATION_MARKER ELSE context

\* the size limit of get_context
Limit(context, max_chars) ==
    IF Len(context) > max_chars
    THEN SlicePrefix(context, max_chars) \o TRUNCATION_MARKER
    ELSE context

\* the context string of get_context before the size limit
FullTranscript(history) == CONTEXT_HEADER \o Transcript(history, 1)

\* a wrong get_context: no early return on an empty history
GetContextAlwaysHeader(history, max_chars) == Limit(FullTranscript(history), max_chars)

\* ConversationHistory.get_context
GetContext(history, max_chars) ==
    IF history = <<>> THEN <<>> ELSE Limit(FullTranscript(history), max_chars)

(***************************************************************************)
(* api/semantic_search.py : create_claude_qa_chain                         *)
(***************************************************************************)
TOP_K == 3

SHORT_RESPONSE_LIMIT == 50

CLAUDE_APOLOGY ==
    <<"L","o"," ","s","i","e","n","t","o",","," ","e","s","t","o","y"," ","t","e","n","i","e",
      "n","d","o"," ","p","r","o","b","l","e","m","a","s"," ","p","a","r","a"," ","p","r","o",
      "c","e","s","a","r"," ","t","u"," ","c","o","n","s","u","l","t","a","."," ","P","o","r",
      " ","f","a","v","o","r",","," ","i","n","t","U+00E9","n","t","a","l","o"," ","d","e"," ",
      "n","u","e","v","o"," ","m","U+00E1","s"," ","t","a","r","d","e",".">>

TITLE_LABEL ==
    <<"T","U+00ED","t","u","l","o",":"," ">>

CATEGORY_LABEL ==
    <<"C","a","t","e","g","o","r","U+00ED","a",":"," ">>

PRICE_LABEL ==
    <<"P","r","e","c","i","o",":"," ">>

AVAILABILITY_LABEL ==
    <<"D","i","s","p","o","n","i","b","i","l","i","d","a","d",":"," ">>

URL_LABEL ==
    <<"U","R","L",":"," ">>

SALE_HEADER ==
    <<"\n","\n","U+1F514"," ","O","F","E","R","T","A"," ","V","I","G","E","N","T","E",":"," ">>

DOC_SEPARATOR ==
    <<"\n","\n">>

\* the metadata keys similarity_search reads with [...]: a missing one is a KeyError
RequiredMetadata == {"title", "category", "price_range", "availability", "source_url"}

RequiredSaleFields == {"variant_title", "original_price", "current_price", "discount_percent"}

\* json.loads of the stored sale_info under the bare except: an undecodable
\* value leaves sale_info = []
DecodeSaleInfo(metadata) ==
    IF "sale_info" \in DOMAIN metadata /\ metadata.sale_info.valid
    THEN metadata.sale_info.records
    ELSE <<>>

\* a wrong rendering: every sale record gets a line
RenderedSalesAll(metadata) ==
    IF "has_active_sale" \in DOMAIN metadata /\ metadata.has_active_sale = "True"
    THEN DecodeSaleInfo(metadata)
    ELSE <<>>

\* the sale records rendered: sale_info[:2] when the active-sale flag is 'True'
RenderedSales(metadata) ==
    IF "has_active_sale" \in DOMAIN metadata /\ metadata.has_active_sale = "True"
       /\ DecodeSaleInfo(metadata) # <<>>
    THEN SubSeq(DecodeSaleInfo(metadata), 1, Min(2, Len(DecodeSaleInfo(metadata))))
    ELSE <<>>

\* format(x, ".2f") of an amount held in cents
Money(cents) ==
    Decimal(cents \div 100) \o <<".">> \o Digit((cents % 100) \div 10) \o Digit(cents % 10)

\* one line of the sale text
SaleLine(i, sale) ==
    <<"\n">> \o Decimal(i) \o <<".", " ">> \o sale.variant_title
    \o <<":", " ", "D", "e", " ", "$">> \o Money(sale.original_price)
    \o <<" ", "a", " ", "$">> \o Money(sale.current_price)
    \o <<" ", "M", "X", "N", " ", "(">> \o Decimal(sale.discount_percent)
    \o <<"%", " ", "O", "F", "F", ")">>

RECURSIVE SaleLines(_, _)
SaleLines(sales, i) ==
    IF i > Len(sales) THEN <<>> ELSE SaleLine(i, sales[i]) \o SaleLines(sales, i + 1)

SaleText(metadata) ==
    IF RenderedSales(metadata) = <<>> THEN <<>>
    ELSE SALE_HEADER \o SaleLines(RenderedSales(metadata), 1)

\* whether formatting this match raises (a missing key)
FormatRaises(match) ==
    \/ ~(RequiredMetadata \subseteq DOMAIN match.metadata)
    \/ \E i \in 1..Len(RenderedSales(match.metadata)) :
          ~(RequiredSaleFields \subseteq DOMAIN RenderedSales(match.metadata)[i])

\* the document similarity_search builds from one match: the score is dropped
Document(match) ==
    LET md == match.metadata
    IN  [page_content |->
            TITLE_LABEL \o md.title \o <<"\n">>
            \o CATEGORY_LABEL \o md.category \o <<"\n">>
            \o PRICE_LABEL \o md.price_range \o <<"\n">>
            \o AVAILABILITY_LABEL \o md.availability \o <<"\n">>
            \o URL_LABEL \o md.source_url \o <<"\n">>
            \o SaleText(md),
         metadata |-> [title |-> md.title, url |-> md.source_url,
                       price_range |-> md.price_range,
                       availability |-> md.availability, category |-> md.category]]

\* a wrong retrieval: matches scoring under 0.80 are left out
DocumentsAboveThreshold(matches) ==
    LET kept == SelectSeq(matches, LAMBDA m : m.score >= 80)
    IN  [i \in 1..Len(kept) |-> Document(kept[i])]

\* the documents similarity_search returns: one per match, in the index's order
Documents(matches) == [i \in 1..Len(matches) |-> Document(matches[i])]

RECURSIVE JoinContents(_, _)
\* "\n\n".join(doc['page_content'] for doc in docs), from index i on
JoinContents(docs, i) ==
    IF i > Len(docs) THEN <<>>
    ELSE docs[i].page_content
         \o (IF i < Len(docs) THEN DOC_SEPARATOR ELSE <<>>)
         \o JoinContents(docs, i + 1)

\* QA_CHAIN_PROMPT.format: the three substitutions of the fixed template
Prompt(context, conversation_context, question) ==
    [context |-> context, conversation_context |-> conversation_context,
     question |-> question]

\* generate_response: the provider's text, or the apology when the call raises
GenerateResponse(env) == IF env.completion_ok THEN env.reply ELSE CLAUDE_APOLOGY

(***************************************************************************)
(* api/semantic_search.py : generate_chatbot_response                      *)
(***************************************************************************)
ERROR_RESPONSE ==
    <<"L","o"," ","s","i","e","n","t","o",","," ","e","s","t","o","y"," ","t","e","n","i","e",
      "n","d","o"," ","p","r","o","b","l","e","m","a","s"," ","p","a","r","a"," ","p","r","o",
      "c","e","s","a","r"," ","t","u"," ","c","o","n","s","u","l","t","a","."," ","P","o","r",
      " ","f","a","v","o","r",","," ","i","n","t","U+00E9","n","t","a","l","o"," ","d","e"," ",
      "n","u","e","v","o"," ","m","U+00E1","s"," ","t","a","r","d","e",".">>

THUMBS_UP ==
    <<"U+1F44D">>

THUMBS_DOWN ==
    <<"U+1F44E">>

handoff_words ==
    <<
      <<"a","g","e","n","t","e">>,
      <<"h","u","m","a","n","o">>,
      <<"r","e","p","r","e","s","e","n","t","a","n","t","e">>
    >>

priority_words ==
    <<
      <<"u","r","g","e","n","t","e">>,
      <<"r","a","p","i","d","o">>
    >>

frustration_keywords ==
    <<
      <<"n","o"," ","e","n","t","i","e","n","d","o">>,
      <<"r","e","p","e","t","i","r">>,
      <<"n","o"," ","f","u","n","c","i","o","n","a">>,
      <<"e","r","r","o","r">>,
      <<"m","a","l">>,
      <<"i","n","c","o","r","r","e","c","t","o">>,
      <<"f","r","u","s","t","r","a","d","o">>,
      <<"c","o","n","f","u","n","d","i","d","o">>,
      <<"a","y","u","d","a">>,
      <<"s","o","p","o","r","t","e">>,
      <<"a","g","e","n","t","e">>,
      <<"h","u","m","a","n","o">>,
      <<"r","e","p","r","e","s","e","n","t","a","n","t","e">>,
      <<"n","o"," ","s","i","r","v","e">>
    >>

AnyIn(words, text) == \E i \in 1..Len(words) : Contains(text, words[i])

IsDigits(s) == s # <<>> /\ \A i \in 1..Len(s) : s[i] \in {"0","1","2","3","4","5","6","7","8","9"}

DigitValue(c) == CHOOSE d \in 0..9 : Digit(d) = <<c>>

RECURSIVE ToInt(_)
\* int(s) of a string of digits
ToInt(s) ==
    IF Len(s) = 1 THEN DigitValue(s[1])
    ELSE 10 * ToInt(SubSeq(s, 1, Len(s) - 1)) + DigitValue(s[Len(s)])

NoPayload == [k \in {} |-> FALSE]

\* a source entry of the returned payload, built from a document's metadata
Source(doc) ==
    [title |-> doc.metadata.title, url |-> doc.metadata.url,
     price |-> doc.metadata.price_range,
     availability |-> doc.metadata.availability, category |-> doc.metadata.category]

\* the sources loop of generate_chatbot_response: one entry per document
Sources(docs) == [i \in 1..Len(docs) |-> Source(docs[i])]

\* a wrong handler: only failures of the two remote calls are caught
CatchesRemoteOnly(stage) == stage \in {"embed", "query", "completion"}

\* `except Exception` around the whole body: every stage's failure is caught
Catches(stage) == TRUE

\* record_feedback as called by the core: what reaches the store
Feedback(env, query, response, rating, comment, session_id) ==
    IF env.recorder_ok
    THEN <<[query |-> query, response |-> response, provider |-> "claude",
            rating |-> rating, comment |-> comment, session_id |-> session_id]>>
    ELSE <<>>

\* the except branch: the fixed apology, no sources, and a best-effort
\* rating-1 feedback entry; `before` are entries recorded earlier in the call
Degraded(stage, query, user_id, history, env, before, tickets, provider_calls) ==
    [raised |-> ~Catches(stage),
     failed_at |-> stage,
     payload |-> IF Catches(stage)
                 THEN [response |-> ERROR_RESPONSE, sources |-> <<>>, provider |-> "claude"]
                 ELSE NoPayload,
     history |-> history,
     recorded |-> IF Catches(stage)
                  THEN before \o Feedback(env, query, ERROR_RESPONSE, 1, <<"e","r","r","o","r">>, user_id)
                  ELSE before,
     tickets |-> tickets,
     provider_calls |-> provider_calls]

\* the return at the end of the try block
Succeeded(response, docs, history, recorded, tickets) ==
    [raised |-> FALSE,
     failed_at |-> "none",
     payload |-> [response |-> response, sources |-> Sources(docs), provider |-> "claude",
                  conversation_history |-> history],
     history |-> history,
     recorded |-> recorded,
     tickets |-> tickets,
     provider_calls |-> 1]

\* the three branches that follow the answer: emoji feedback, hand-off, widget
AfterAnswer(query, user_id, response, docs, history, env) ==
    IF Strip(query) \in {THUMBS_UP, THUMBS_DOWN}
    THEN \* the exchange before the one just appended is rated
         IF Len(history) < 2
         THEN Degraded("feedback_lookup", query, user_id, history, env, <<>>, <<>>, 1)
         ELSE IF ~env.recorder_ok
         THEN Degraded("recorder", query, user_id, history, env, <<>>, <<>>, 1)
         ELSE Succeeded(response, docs, history,
                        Feedback(env, history[Len(history) - 1].query,
                                 history[Len(history) - 1].response,
                                 IF Strip(query) = THUMBS_UP THEN 5 ELSE 1, <<>>, user_id),
                        <<>>)
    ELSE IF AnyIn(handoff_words, Lower(query))
    THEN \* contact_info = input(...), then create_support_ticket under try/except
         IF env.stdin.eof
         THEN Degraded("stdin", query, user_id, history, env, <<>>, <<>>, 1)
         ELSE Succeeded(response, docs, history, <<>>,
                        IF env.ticket_ok
                        THEN <<[query |-> query, response |-> response,
                                contact_info |-> env.stdin.line,
                                priority |-> IF AnyIn(priority_words, Lower(query))
                                             THEN "alta" ELSE "media"]>>
                        ELSE <<>>)
    ELSE LET should_show ==
                 \/ AnyIn(frustration_keywords, Lower(query))
                 \/ Len(history) > 3
                 \/ Len(response) < SHORT_RESPONSE_LIMIT
         IN  IF ~should_show
             THEN Succeeded(response, docs, history, <<>>, <<>>)
             ELSE IF env.stdin.eof
             THEN Degraded("stdin", query, user_id, history, env, <<>>, <<>>, 1)
             ELSE IF Strip(env.stdin.line) = <<>> \/ ~IsDigits(Strip(env.stdin.line))
             THEN Succeeded(response, docs, history, <<>>, <<>>)
             ELSE IF ~(1 <= ToInt(Strip(env.stdin.line)) /\ ToInt(Strip(env.stdin.line)) <= 5)
             THEN Succeeded(response, docs, history, <<>>, <<>>)
             ELSE IF ~env.recorder_ok
             THEN Degraded("recorder", query, user_id, history, env, <<>>, <<>>, 1)
             ELSE Succeeded(response, docs, history,
                            Feedback(env, query, response, ToInt(Strip(env.stdin.line)),
                                     env.stdin.line, user_id),
                            <<>>)

\* qa_chain and what follows it, once the chain is built
AnswerQuery(query, user_id, history, max_history, env, now) ==
    IF ~env.embed_ok
    THEN Degraded("embed", query, user_id, history, env, <<>>, <<>>, 0)
    ELSE IF ~env.index_ok
    THEN Degraded("query", query, user_id, history, env, <<>>, <<>>, 0)
    ELSE IF \E i \in 1..Len(env.matches) : FormatRaises(env.matches[i])
    THEN Degraded("format", query, user_id, history, env, <<>>, <<>>, 0)
    ELSE LET docs == Documents(env.matches)
             response == GenerateResponse(env)
             appended == AppendBounded(history, max_history,
                                       Exchange(now, query, response, docs))
         IN  AfterAnswer(query, user_id, response, docs, appended, env)

\* generate_chatbot_response(query, user_id, conversation_history) on a
\* history holding `history`
GenerateChatbotResponse(query, user_id, history, max_history, env, now) ==
    IF ~env.construct_ok
    THEN Degraded("construct", query, user_id, history, env, <<>>, <<>>, 0)
    ELSE AnswerQuery(query, user_id, history, max_history, env, now)

\* no prompt was built: the call failed before qa_chain formatted one
NoPrompt == [k \in {} |-> <<>>]

\* the prompt qa_chain hands to the provider (when it gets that far)
PromptOf(query, history, env) ==
    Prompt(JoinContents(Documents(env.matches), 1),
           GetContext(history, DEFAULT_MAX_CHARS), query)

(***************************************************************************)
(* api/chat_api.py : sessions, init_chat, handle_message                   *)
(***************************************************************************)
JSON_REQUIRED_TEXT ==
    <<"D","a","t","o","s"," ","J","S","O","N"," ","r","e","q","u","e","r","i","d","o","s">>

SESSION_STARTED_TEXT ==
    <<"S","e","s","i","U+00F3","n"," ","d","e"," ","c","h","a","t"," ","i","n","i","c","i","a",
      "d","a">>

WELCOME_TEXT ==
    <<"U+00A1","H","o","l","a","!"," ","B","i","e","n","v","e","n","i","d","o"," ","a"," ","M",
      "a","s","a"," ","M","a","d","r","e"," ","M","o","n","t","e","r","r","e","y",".","\n","\n",
      "S","o","y"," ","t","u"," ","a","s","i","s","t","e","n","t","e"," ","v","i","r","t","u",
      "a","l"," ","y"," ","e","s","t","o","y"," ","a","q","u","U+00ED"," ","p","a","r","a"," ",
      "a","y","u","d","a","r","t","e"," ","c","o","n"," ","t","o","d","o"," ","l","o"," ","r",
      "e","l","a","c","i","o","n","a","d","o"," ","c","o","n"," ","n","u","e","s","t","r","o",
      "s"," ","p","a","n","e","s"," ","a","r","t","e","s","a","n","a","l","e","s"," ","d","e",
      " ","m","a","s","a"," ","m","a","d","r","e","."," ","U+00BF","E","n"," ","q","u","U+00E9",
      " ","p","u","e","d","o"," ","a","y","u","d","a","r","t","e"," ","h","o","y","?">>

USER_ID_REQUIRED_TEXT ==
    <<"u","s","e","r","_","i","d"," ","e","s"," ","r","e","q","u","e","r","i","d","o">>

INVALID_SESSION_TEXT ==
    <<"S","e","s","i","U+00F3","n"," ","n","o"," ","v","U+00E1","l","i","d","a","."," ","P","o",
      "r"," ","f","a","v","o","r",","," ","i","n","i","c","i","a"," ","u","n","a"," ","n","u",
      "e","v","a"," ","s","e","s","i","U+00F3","n",".">>

EMPTY_MESSAGE_TEXT ==
    <<"P","a","r","e","c","e"," ","q","u","e"," ","e","n","v","i","a","s","t","e"," ","u","n",
      " ","m","e","n","s","a","j","e"," ","v","a","c","U+00ED","o","."," ","U+00BF","E","n"," ",
      "q","u","U+00E9"," ","p","u","e","d","o"," ","a","y","u","d","a","r","t","e","?">>

GENERATION_ERROR_TEXT ==
    <<"L","o"," ","s","i","e","n","t","o",","," ","e","s","t","o","y"," ","t","e","n","i","e",
      "n","d","o"," ","d","i","f","i","c","u","l","t","a","d","e","s"," ","t","U+00E9","c","n",
      "i","c","a","s"," ","t","e","m","p","o","r","a","l","e","s"," ","p","a","r","a"," ","p",
      "r","o","c","e","s","a","r"," ","t","u"," ","c","o","n","s","u","l","t","a","."," ","P",
      "o","r"," ","f","a","v","o","r",","," ","i","n","t","U+00E9","n","t","a","l","o"," ","d",
      "e"," ","n","u","e","v","o"," ","e","n"," ","u","n"," ","m","o","m","e","n","t","o",".",
      " ","S","i"," ","e","l"," ","p","r","o","b","l","e","m","a"," ","p","e","r","s","i","s",
      "t","e",","," ","p","u","e","d","e","s"," ","e","s","c","r","i","b","i","r"," ","'","s",
      "o","p","o","r","t","e","'"," ","p","a","r","a"," ","c","o","n","t","a","c","t","a","r",
      " ","c","o","n"," ","u","n"," ","a","g","e","n","t","e"," ","h","u","m","a","n","o",".">>

NO_ANSWER_TEXT ==
    <<"L","o"," ","s","i","e","n","t","o",","," ","n","o"," ","t","e","n","g","o"," ","u","n",
      "a"," ","r","e","s","p","u","e","s","t","a"," ","p","a","r","a"," ","e","s","a"," ","c",
      "o","n","s","u","l","t","a",".">>

support_keywords ==
    <<
      <<"h","u","m","a","n","o">>,
      <<"a","g","e","n","t","e">>,
      <<"r","e","p","r","e","s","e","n","t","a","n","t","e">>,
      <<"p","e","r","s","o","n","a">>,
      <<"s","o","p","o","r","t","e">>,
      <<"h","a","b","l","a","r"," ","c","o","n"," ","a","l","g","u","i","e","n">>,
      <<"q","u","i","e","r","o"," ","h","a","b","l","a","r">>,
      <<"c","o","n","t","a","c","t","a","r">>,
      <<"c","o","n","e","c","t","a","r">>,
      <<"a","s","e","s","o","r">>,
      <<"a","y","u","d","a"," ","h","u","m","a","n","a">>,
      <<"h","u","m","a","n","o"," ","p","o","r"," ","f","a","v","o","r">>,
      <<"h","u","m","a","n","o"," ","a","h","o","r","a">>
    >>

\* sessions[user_id] = value
\* a wrong assignment: the value lands under every key of the map
PutEverywhere(map, user_id, value) ==
    [u \in DOMAIN map \cup {user_id} |-> value]

Put(map, user_id, value) ==
    [u \in DOMAIN map \cup {user_id} |-> IF u = user_id THEN value ELSE map[u]]

\* init_chat: the reply of the endpoint and the session map afterwards.
\* A request without user_id gets a generated one.
InitChatResult(data, generated_id, use_pinecone, map) ==
    IF ~data.has_json
    THEN [code |-> 400, sessions |-> map,
          payload |-> [status |-> "error", message |-> JSON_REQUIRED_TEXT]]
    ELSE LET user_id == IF data.user_id = "" THEN generated_id ELSE data.user_id
         IN  [code |-> 200,
              sessions |-> Put(map, user_id, NewHistory(DEFAULT_MAX_HISTORY, use_pinecone)),
              payload |-> [status |-> "success", user_id |-> user_id,
                           message |-> SESSION_STARTED_TEXT,
                           welcome_message |-> WELCOME_TEXT]]

\* is_human_request: any support keyword in message.lower()
IsHumanRequest(message) == AnyIn(support_keywords, Lower(message))

\* backend_detected_intent
DetectedIntent(is_human_request) ==
    IF is_human_request THEN "intent_to_handoff" ELSE "general"

\* the keyword arguments handle_message passes to generate_chatbot_response
CallKeywords == {"query", "user_id", "conversation_history", "detected_human_intent"}

\* the parameters generate_chatbot_response declares
CoreParameters == {"query", "user_id", "conversation_history"}

\* a call with a keyword the function does not declare raises TypeError
\* before the function's body (and its try block) is entered
CallRaisesTypeError == ~(CallKeywords \subseteq CoreParameters)

\* a wrong fallback: the apology that points to 'soporte' is flagged as a hand-off
GenerationErrorWithIntent(user_id) ==
    [status |-> "success", response |-> GENERATION_ERROR_TEXT, sources |-> <<>>,
     user_id |-> user_id, error_flag |-> TRUE, error_type |-> "generation_error",
     detected_intent |-> "intent_to_handoff"]

\* the reply of handle_message when the call of the core raises
GenerationErrorPayload(user_id) ==
    [status |-> "success", response |-> GENERATION_ERROR_TEXT, sources |-> <<>>,
     user_id |-> user_id, error_flag |-> TRUE, error_type |-> "generation_error"]

\* a wrong lookup: subscripting the defaultdict, which adds an entry for a
\* user id it does not hold
SessionsSubscript(map, user_id) ==
    [found |-> user_id \in DOMAIN map,
     sessions |-> IF user_id \in DOMAIN map THEN map
                  ELSE Put(map, user_id, NewHistory(DEFAULT_MAX_HISTORY, TRUE))]

\* sessions.get(user_id): whether the user id has a session, and the session
\* map afterwards (get never runs the default factory of the defaultdict)
SessionsGet(map, user_id) ==
    [found |-> user_id \in DOMAIN map, sessions |-> map]

\* handle_message: the reply of the endpoint, the session map afterwards,
\* whether the call of the core was reached (invoked) and whether its body
\* ran (entered). The core always returns a dict, so the
\* response_format_error reply is never produced.
HandleMessageResult(data, env, map, now) ==
    IF ~data.has_json
    THEN [code |-> 400, sessions |-> map, invoked |-> FALSE, entered |-> FALSE,
          payload |-> [status |-> "error", message |-> JSON_REQUIRED_TEXT]]
    ELSE IF data.user_id = ""
    THEN [code |-> 400, sessions |-> map, invoked |-> FALSE, entered |-> FALSE,
          payload |-> [status |-> "error", message |-> USER_ID_REQUIRED_TEXT]]
    ELSE LET looked == SessionsGet(map, data.user_id) IN
    IF ~looked.found
    THEN [code |-> 400, sessions |-> looked.sessions, invoked |-> FALSE, entered |-> FALSE,
          payload |-> [status |-> "error", message |-> INVALID_SESSION_TEXT,
                       requires_new_session |-> TRUE]]
    ELSE IF Strip(data.message) = <<>>
    THEN [code |-> 200, sessions |-> looked.sessions, invoked |-> FALSE, entered |-> FALSE,
          payload |-> [status |-> "success", response |-> EMPTY_MESSAGE_TEXT,
                       sources |-> <<>>, user_id |-> data.user_id]]
    ELSE IF CallRaisesTypeError
    THEN [code |-> 200, sessions |-> looked.sessions, invoked |-> TRUE, entered |-> FALSE,
          payload |-> GenerationErrorPayload(data.user_id)]
    ELSE LET message == Strip(data.message)
             session == looked.sessions[data.user_id]
             r == GenerateChatbotResponse(message, data.user_id, session.history,
                                          session.max_history, env, now)
             after == Put(looked.sessions, data.user_id,
                          [session EXCEPT !.history = r.history])
         IN  IF r.raised
             THEN [code |-> 200, sessions |-> after, invoked |-> TRUE, entered |-> TRUE,
                   payload |-> GenerationErrorPayload(data.user_id)]
             ELSE [code |-> 200, sessions |-> after, invoked |-> TRUE, entered |-> TRUE,
                   payload |-> [status |-> "success",
                                response |-> IF "response" \in DOMAIN r.payload
                                             THEN r.payload.response ELSE NO_ANSWER_TEXT,
                                sources |-> IF "sources" \in DOMAIN r.payload
                                            THEN r.payload.sources ELSE <<>>,
                                user_id |-> data.user_id,
                                detected_intent |-> DetectedIntent(IsHumanRequest(message))]]

INVALID_SESSION_SHORT_TEXT ==
    <<"S","e","s","i","U+00F3","n"," ","n","o"," ","v","U+00E1","l","i","d","a">>

INVALID_RATING_TEXT ==
    <<"C","a","l","i","f","i","c","a","c","i","U+00F3","n"," ","i","n","v","U+00E1","l","i","d",
      "a","."," ","D","e","b","e"," ","s","e","r"," ","u","n"," ","n","U+00FA","m","e","r","o",
      " ","e","n","t","e","r","o"," ","e","n","t","r","e"," ","1"," ","y"," ","5",".">>

NO_HISTORY_TEXT ==
    <<"N","o"," ","h","a","y"," ","h","i","s","t","o","r","i","a","l"," ","d","e"," ","c","o",
      "n","v","e","r","s","a","c","i","U+00F3","n"," ","p","a","r","a"," ","c","a","l","i","f",
      "i","c","a","r">>

FEEDBACK_THANKS_TEXT ==
    <<"U+00A1","G","r","a","c","i","a","s"," ","p","o","r"," ","t","u"," ","r","e","t","r","o",
      "a","l","i","m","e","n","t","a","c","i","U+00F3","n","!">>

FEEDBACK_THANKS_NOTE_TEXT ==
    <<"U+00A1","G","r","a","c","i","a","s"," ","p","o","r"," ","t","u"," ","r","e","t","r","o",
      "a","l","i","m","e","n","t","a","c","i","U+00F3","n","!"," ","(","N","o","t","a",":"," ",
      "H","u","b","o"," ","u","n"," ","p","e","q","u","e","U+00F1","o"," ","p","r","o","b","l",
      "e","m","a"," ","g","u","a","r","d","U+00E1","n","d","o","l","a",","," ","p","e","r","o",
      " ","l","a"," ","h","e","m","o","s"," ","r","e","c","i","b","i","d","o",")",".">>

INCOMPLETE_CONTACT_TEXT ==
    <<"I","n","f","o","r","m","a","c","i","U+00F3","n"," ","d","e"," ","c","o","n","t","a","c",
      "t","o"," ","i","n","c","o","m","p","l","e","t","a","."," ","S","e"," ","r","e","q","u",
      "i","e","r","e"," ","n","o","m","b","r","e",","," ","e","m","a","i","l"," ","y"," ","t",
      "e","l","U+00E9","f","o","n","o",".">>

SUPPORT_FAILED_TEXT ==
    <<"E","r","r","o","r"," ","a","l"," ","p","r","o","c","e","s","a","r"," ","t","u"," ","s",
      "o","l","i","c","i","t","u","d","."," ","P","o","r"," ","f","a","v","o","r",","," ","i",
      "n","t","U+00E9","n","t","a","l","o"," ","d","e"," ","n","u","e","v","o",".">>

\* the keyword arguments handle_feedback passes to record_feedback
FeedbackKeywords == {"query", "response", "provider", "rating", "user_comment", "session_id"}

\* the parameters of the function the name record_feedback is bound to when a
\* request is served: the route function defined last in chat_api.py, which
\* takes none (it replaces the one imported from feedback_system)
RecordFeedbackParameters == {}

\* rating is None or not isinstance(rating, int) or not (1 <= rating <= 5)
RatingInvalid(rating) ==
    \/ rating.kind # "int"
    \/ ~(1 <= rating.value /\ rating.value <= 5)

\* what the feedback recorder of feedback_system received: nothing
NothingRecorded == [k \in {} |-> <<>>]

\* handle_feedback: the reply of the endpoint and what reached the feedback
\* recorder; the session map is only read. The call names the route function,
\* which accepts no argument, so it raises before anything is recorded.
HandleFeedbackResult(data, map, recorder_ok) ==
    IF ~data.has_json
    THEN [code |-> 400, recorded |-> NothingRecorded,
          payload |-> [status |-> "error", message |-> JSON_REQUIRED_TEXT]]
    ELSE IF data.user_id = "" \/ data.user_id \notin DOMAIN map
    THEN [code |-> 400, recorded |-> NothingRecorded,
          payload |-> [status |-> "error", message |-> INVALID_SESSION_SHORT_TEXT]]
    ELSE IF RatingInvalid(data.rating)
    THEN [code |-> 400, recorded |-> NothingRecorded,
          payload |-> [status |-> "error", message |-> INVALID_RATING_TEXT]]
    ELSE LET full_history == map[data.user_id].history IN
    IF full_history = <<>>
    THEN [code |-> 400, recorded |-> NothingRecorded,
          payload |-> [status |-> "error", message |-> NO_HISTORY_TEXT]]
    ELSE IF ~(FeedbackKeywords \subseteq RecordFeedbackParameters)
    THEN [code |-> 200, recorded |-> NothingRecorded,
          payload |-> [status |-> "success", message |-> FEEDBACK_THANKS_NOTE_TEXT]]
    ELSE IF ~recorder_ok
    THEN [code |-> 200, recorded |-> NothingRecorded,
          payload |-> [status |-> "success", message |-> FEEDBACK_THANKS_NOTE_TEXT]]
    ELSE [code |-> 200,
          recorded |-> [query |-> full_history[Len(full_history)].query,
                        response |-> full_history[Len(full_history)].response,
                        rating |-> data.rating.value],
          payload |-> [status |-> "success", message |-> FEEDBACK_THANKS_TEXT]]

(***************************************************************************)
(* lib/support_system_improved.py : SupportSystem                          *)
(* A JSON value of the contact information is a string, Str(text), or null.*)
(***************************************************************************)
Str(text) == [kind |-> "str", text |-> text]

Null == [kind |-> "null"]

NAME_MIN == 2

NAME_MAX == 100

PHONE_MIN == 10

PHONE_MAX == 15

TLD_MIN == 2

NAME_SHORT_TEXT ==
    <<"E","l"," ","n","o","m","b","r","e"," ","d","e","b","e"," ","t","e","n","e","r"," ","a",
      "l"," ","m","e","n","o","s"," ","2"," ","c","a","r","a","c","t","e","r","e","s">>

NAME_LONG_TEXT ==
    <<"E","l"," ","n","o","m","b","r","e"," ","e","s"," ","d","e","m","a","s","i","a","d","o",
      " ","l","a","r","g","o">>

EMAIL_FORMAT_TEXT ==
    <<"E","l"," ","f","o","r","m","a","t","o"," ","d","e","l"," ","e","m","a","i","l"," ","n",
      "o"," ","e","s"," ","v","U+00E1","l","i","d","o">>

PHONE_DIGITS_TEXT ==
    <<"E","l"," ","t","e","l","U+00E9","f","o","n","o"," ","s","o","l","o"," ","d","e","b","e",
      " ","c","o","n","t","e","n","e","r"," ","n","U+00FA","m","e","r","o","s">>

PHONE_SHORT_TEXT ==
    <<"E","l"," ","t","e","l","U+00E9","f","o","n","o"," ","d","e","b","e"," ","t","e","n","e",
      "r"," ","a","l"," ","m","e","n","o","s"," ","1","0"," ","d","U+00ED","g","i","t","o","s">>

PHONE_LONG_TEXT ==
    <<"E","l"," ","t","e","l","U+00E9","f","o","n","o"," ","e","s"," ","d","e","m","a","s","i",
      "a","d","o"," ","l","a","r","g","o">>

INVALID_CONTACT_PREFIX ==
    <<"I","n","f","o","r","m","a","c","i","U+00F3","n"," ","d","e"," ","c","o","n","t","a","c",
      "t","o"," ","i","n","v","U+00E1","l","i","d","a",":"," ">>

TICKET_PREFIX ==
    <<"T","I","C","K","E","T","-">>

SUPPORT_REASON_TEXT ==
    <<"S","o","l","i","c","i","t","u","d"," ","d","e"," ","s","o","p","o","r","t","e"," ","h",
      "u","m","a","n","o"," ","d","e","s","d","e"," ","e","l"," ","w","i","d","g","e","t"," ",
      "d","e"," ","c","h","a","t">>

SUPPORT_RECEIVED_TEXT ==
    <<"H","e","m","o","s"," ","r","e","c","i","b","i","d","o"," ","t","u"," ","s","o","l","i",
      "c","i","t","u","d","."," ","T","u"," ","n","U+00FA","m","e","r","o"," ","d","e"," ","f",
      "o","l","i","o"," ","e","s",":"," ">>

SUPPORT_CONTACT_TEXT ==
    <<"."," ","T","e"," ","c","o","n","t","a","c","t","a","r","e","m","o","s"," ","p","r","o",
      "n","t","o"," ","e","n"," ">>

Letters == { UpperCase[i] : i \in 1..Len(UpperCase) } \cup { LowerCase[i] : i \in 1..Len(LowerCase) }

Digits == {"0","1","2","3","4","5","6","7","8","9"}

\* [a-zA-Z0-9._%+-]
EmailLocalChars == Letters \cup Digits \cup {".", "_", "%", "+", "-"}

\* [a-zA-Z0-9.-]
EmailDomainChars == Letters \cup Digits \cup {".", "-"}

AllIn(s, chars) == \A i \in 1..Len(s) : s[i] \in chars

\* re.match(email_regex, email); $ also matches before one final newline
MatchesEmail(email) ==
    LET body == IF email # <<>> /\ email[Len(email)] = "\n"
                THEN SubSeq(email, 1, Len(email) - 1) ELSE email
    IN  \E at \in 1..Len(body), dot \in 1..Len(body) :
            /\ body[at] = "@" /\ body[dot] = "."
            /\ at > 1 /\ AllIn(SubSeq(body, 1, at - 1), EmailLocalChars)
            /\ dot > at + 1 /\ AllIn(SubSeq(body, at + 1, dot - 1), EmailDomainChars)
            /\ Len(body) - dot >= TLD_MIN
            /\ AllIn(SubSeq(body, dot + 1, Len(body)), Letters)

\* re.sub(r'[\s\-\(\)]', '', phone)
CleanPhone(phone) ==
    SelectSeq(phone, LAMBDA c : c \notin WhiteSpace \cup {"-", "(", ")"})

\* contact_info.get(key, '')
GetField(contact_info, key) ==
    IF key \in DOMAIN contact_info THEN contact_info[key] ELSE Str(<<>>)

\* validate_contact_info: the error messages, in order; a telephone that is
\* not a string makes re.sub raise TypeError
ValidateContactInfo(contact_info) ==
    LET name == GetField(contact_info, "name")
        email == GetField(contact_info, "email")
        phone == GetField(contact_info, "phone")
    IN  IF phone.kind = "null"
        THEN [raised |-> TRUE, errors |-> <<>>]
        ELSE [raised |-> FALSE,
              errors |->
                (IF name.kind = "null" \/ name.text = <<>> \/ Len(Strip(name.text)) < NAME_MIN
                 THEN <<NAME_SHORT_TEXT>>
                 ELSE IF Len(Strip(name.text)) > NAME_MAX THEN <<NAME_LONG_TEXT>> ELSE <<>>)
                \o (IF email.kind = "null" \/ email.text = <<>> \/ ~MatchesEmail(email.text)
                    THEN <<EMAIL_FORMAT_TEXT>> ELSE <<>>)
                \o (LET cleaned_phone == CleanPhone(phone.text)
                    IN  IF cleaned_phone = <<>> \/ ~IsDigits(cleaned_phone)
                        THEN <<PHONE_DIGITS_TEXT>>
                        ELSE IF Len(cleaned_phone) < PHONE_MIN THEN <<PHONE_SHORT_TEXT>>
                        ELSE IF Len(cleaned_phone) > PHONE_MAX THEN <<PHONE_LONG_TEXT>>
                        ELSE <<>>)]

RECURSIVE JoinErrors(_, _)
\* ', '.join(validation_errors), from index i on
JoinErrors(errors, i) ==
    IF i > Len(errors) THEN <<>>
    ELSE errors[i] \o (IF i < Len(errors) THEN <<",", " ">> ELSE <<>>)
         \o JoinErrors(errors, i + 1)

\* f"TICKET-{int(datetime.now().timestamp())}"
TicketId(now) == TICKET_PREFIX \o Decimal(now)

\* the ticket dict
Ticket(now, query, response, conversation_history, contact_info, priority, reason) ==
    [ticket_id |-> TicketId(now), timestamp |-> now, query |-> query,
     last_response |-> response, conversation_history |-> conversation_history,
     contact_info |-> contact_info, priority |-> priority, reason |-> reason,
     status |-> "abierto"]

\* send_support_notification under try/except: the mail to the team, then the
\* confirmation to the client; a failure stops the sending and is only logged
Notifications(ticket, env) ==
    IF ~env.email_enabled \/ env.mail = "none" THEN <<>>
    ELSE IF env.mail = "team_only"
    THEN <<[to |-> "team", ticket_id |-> ticket.ticket_id]>>
    ELSE <<[to |-> "team", ticket_id |-> ticket.ticket_id],
           [to |-> "client", ticket_id |-> ticket.ticket_id]>>

\* what create_support_ticket returns when it raises before storing anything
TicketRaised(kind, message, file, outbox) ==
    [raised |-> kind, message |-> message, ticket_id |-> <<>>, file |-> file, sent |-> outbox]

\* a wrong create_support_ticket: the ticket is stored before the contact
\* information is validated
CreateThenValidate(file, outbox, request, now, env) ==
    LET ticket == Ticket(now, request.query, request.response,
                         request.conversation_history, request.contact_info,
                         request.priority, request.reason)
        stored == Append(file, ticket)
        checked == ValidateContactInfo(request.contact_info)
    IN  IF checked.raised THEN TicketRaised("TypeError", <<>>, stored, outbox)
        ELSE IF checked.errors # <<>>
        THEN TicketRaised("ValueError",
                          INVALID_CONTACT_PREFIX \o JoinErrors(checked.errors, 1),
                          stored, outbox)
        ELSE [raised |-> "none", message |-> <<>>, ticket_id |-> ticket.ticket_id,
              file |-> stored, sent |-> outbox \o Notifications(ticket, env)]

\* create_support_ticket(query, response, conversation_history, contact_info,
\* priority, reason), the arguments being the fields of `request`: validation,
\* then the ticket id, the read of the stored list, the append and the write,
\* then the notification
CreateSupportTicket(file, outbox, request, now, env) ==
    LET checked == ValidateContactInfo(request.contact_info)
        ticket == Ticket(now, request.query, request.response,
                         request.conversation_history, request.contact_info,
                         request.priority, request.reason)
    IN  IF checked.raised THEN TicketRaised("TypeError", <<>>, file, outbox)
        ELSE IF checked.errors # <<>>
        THEN TicketRaised("ValueError",
                          INVALID_CONTACT_PREFIX \o JoinErrors(checked.errors, 1),
                          file, outbox)
        ELSE IF ~env.write_ok THEN TicketRaised("OSError", <<>>, file, outbox)
        ELSE [raised |-> "none", message |-> <<>>, ticket_id |-> ticket.ticket_id,
              file |-> Append(file, ticket),
              sent |-> outbox \o Notifications(ticket, env)]

\* the keys request_support requires in contact_info
RequiredContactKeys == {"name", "email", "phone"}

\* request_support: the reply of the endpoint, the stored ticket list and the
\* mails sent afterwards; the session map is only read. data.contact_info is
\* the dict of the request, data.contact_is_dict tells whether it is one.
RequestSupportResult(data, map, file, outbox, env, now) ==
    LET unchanged == [file |-> file, sent |-> outbox, raised |-> "none"]
    IN
    IF ~data.has_json
    THEN unchanged @@ [code |-> 400,
                       payload |-> [status |-> "error", message |-> JSON_REQUIRED_TEXT]]
    ELSE IF data.user_id = "" \/ data.user_id \notin DOMAIN map
    THEN unchanged @@ [code |-> 400,
                       payload |-> [status |-> "error",
                                    message |-> INVALID_SESSION_SHORT_TEXT]]
    ELSE IF ~data.contact_is_dict \/ ~(RequiredContactKeys \subseteq DOMAIN data.contact_info)
    THEN unchanged @@ [code |-> 400,
                       payload |-> [status |-> "error",
                                    message |-> INCOMPLETE_CONTACT_TEXT]]
    ELSE LET full_history == map[data.user_id].history
             last_query == IF full_history = <<>> THEN <<>>
                           ELSE full_history[Len(full_history)].query
             last_response == IF full_history = <<>> THEN <<>>
                              ELSE full_history[Len(full_history)].response
             r == CreateSupportTicket(file, outbox,
                                      [query |-> last_query, response |-> last_response,
                                       conversation_history |-> full_history,
                                       contact_info |-> data.contact_info,
                                       priority |-> "media",
                                       reason |-> SUPPORT_REASON_TEXT],
                                      now, env)
         IN  IF r.raised = "ValueError"
             THEN [code |-> 400, file |-> r.file, sent |-> r.sent, raised |-> r.raised,
                   payload |-> [status |-> "error", message |-> r.message]]
             ELSE IF r.raised # "none"
             THEN [code |-> 500, file |-> r.file, sent |-> r.sent, raised |-> r.raised,
                   payload |-> [status |-> "error", message |-> SUPPORT_FAILED_TEXT]]
             ELSE [code |-> 200, file |-> r.file, sent |-> r.sent, raised |-> r.raised,
                   payload |-> [status |-> "success",
                                message |-> SUPPORT_RECEIVED_TEXT \o r.ticket_id
                                            \o SUPPORT_CONTACT_TEXT
                                            \o data.contact_info["email"].text
                                            \o <<".">>,
                                ticket_id |-> r.ticket_id]]

(***************************************************************************)
(* Direct use of one ConversationHistory.                                  *)
(***************************************************************************)
LongResponse == Repeat("x", RESPONSE_PREVIEW + 1)

HistoryQueries == { <<"h","o","l","a">>, <<"p","a","n">> }

HistoryResponses == { <<"s","i">>, LongResponse }

MaxCharsArgs == {-1, 0, 30, 300, DEFAULT_MAX_CHARS}

NoUsers == [u \in {} |-> 0]

NoYield == [m \in {} |-> {}]

InitHistory ==
    /\ \E n \in 1..MaxHistoryArg, p \in BOOLEAN : conv = NewHistory(n, p)
    /\ added = <<>>
    /\ clock = 0
    /\ calls = 0
    /\ last = [op |-> "create"]
    /\ sessions = NoUsers
    /\ yielded = NoYield
    /\ pc = "idle"
    /\ events = <<>>
    /\ tickets_file = <<>>
    /\ sent = <<>>

AddExchangeCall ==
    /\ clock < MaxAdds
    /\ \E q \in HistoryQueries, r \in HistoryResponses, m \in MirrorOutcomes(conv.use_pinecone) :
        LET exchange == Exchange(clock, q, r, <<>>)
        IN  /\ conv' = [conv EXCEPT !.history =
                            AppendBounded(conv.history, conv.max_history, exchange)]
            /\ added' = Append(added, exchange)
            /\ last' = [op |-> "add_exchange", raised |-> FALSE, mirror |-> m]
    /\ clock' = clock + 1
    /\ UNCHANGED <<tickets_file, sent, calls, sessions, yielded, pc, events>>

GetContextCall ==
    /\ \E n \in MaxCharsArgs :
        last' = [op |-> "get_context", max_chars |-> n,
                 result |-> GetContext(conv.history, n)]
    /\ UNCHANGED <<tickets_file, sent, conv, added, clock, calls, sessions, yielded, pc, events>>

GetFullHistoryCall ==
    /\ last' = [op |-> "get_full_history", result |-> conv.history]
    /\ UNCHANGED <<tickets_file, sent, conv, added, clock, calls, sessions, yielded, pc, events>>

ClearHistoryCall ==
    /\ conv' = [conv EXCEPT !.history = <<>>]
    /\ added' = <<>>
    /\ last' = [op |-> "clear_history"]
    /\ UNCHANGED <<tickets_file, sent, clock, calls, sessions, yielded, pc, events>>

NextHistory ==
    \/ AddExchangeCall
    \/ GetContextCall
    \/ GetFullHistoryCall
    \/ ClearHistoryCall

SpecHistory == InitHistory /\ [][NextHistory]_vars

(***************************************************************************)
(* add_exchange step by step: the append, then _save_to_pinecone on the    *)
(* caller's thread (embedding, upsert, the two delayed verifications).     *)
(***************************************************************************)
\* a wrong mirror: only the verification steps are guarded (no outer handler)
MirrorCatchesVerificationOnly(step) == step \in {"fetch", "query"}

\* whether an exception raised at this step stays inside _save_to_pinecone:
\* the outer except Exception covers every step, the inner ones the verifications
MirrorCatches(step) == TRUE

\* what the steps of the mirror write can do
EmbedOutcomes == {"ok", "raised"}

\* self.pinecone_index.upsert: pinecone_index is None when no API key was set
UpsertOutcomes == {"ok", "no_index", "raised"}

VerifyOutcomes == {"found", "not_found", "raised"}

\* the steps of the mirror write in the log of the call
MirrorSteps == {"embed", "upsert", "sleep_0.5", "fetch", "sleep_1.5", "query", "error_feedback"}

\* add_exchange returns (or raises) to its caller
AddExchangeReturn(raised, mirror, log) ==
    /\ pc' = "idle"
    /\ events' = log
    /\ last' = [op |-> "add_exchange", raised |-> raised, mirror |-> mirror,
                waited_for |-> SelectSeq(log, LAMBDA x : x \in MirrorSteps)]

\* an exception raised at a step of the mirror write
MirrorRaise(step, log) ==
    IF MirrorCatches(step)
    THEN pc' = "error_feedback" /\ events' = log /\ UNCHANGED last
    ELSE AddExchangeReturn(TRUE, "raised", log)

InitMirror ==
    /\ \E n \in 1..MaxHistoryArg, p \in BOOLEAN : conv = NewHistory(n, p)
    /\ added = <<>>
    /\ clock = 0
    /\ calls = 0
    /\ last = [op |-> "create"]
    /\ sessions = NoUsers
    /\ yielded = NoYield
    /\ pc = "idle"
    /\ events = <<>>
    /\ tickets_file = <<>>
    /\ sent = <<>>

\* lines 71-85: build the exchange, append, drop the oldest, enter the mirror write
AddExchangeBegin ==
    /\ pc = "idle"
    /\ clock < MaxAdds
    /\ \E q \in HistoryQueries, r \in HistoryResponses :
        LET exchange == Exchange(clock, q, r, <<>>)
        IN  /\ conv' = [conv EXCEPT !.history =
                            AppendBounded(conv.history, conv.max_history, exchange)]
            /\ added' = Append(added, exchange)
    /\ clock' = clock + 1
    /\ IF conv.use_pinecone
       THEN pc' = "embed" /\ events' = <<"append">> /\ UNCHANGED last
       ELSE AddExchangeReturn(FALSE, "skipped", <<"append">>)
    /\ UNCHANGED <<tickets_file, sent, calls, sessions, yielded>>

\* client.embeddings.create
MirrorEmbed ==
    /\ pc = "embed"
    /\ \E o \in EmbedOutcomes :
        IF o = "ok"
        THEN pc' = "upsert" /\ events' = Append(events, "embed") /\ UNCHANGED last
        ELSE MirrorRaise("embed", Append(events, "embed"))
    /\ UNCHANGED <<tickets_file, sent, conv, added, clock, calls, sessions, yielded>>

\* self.pinecone_index.upsert, then time.sleep(0.5)
MirrorUpsert ==
    /\ pc = "upsert"
    /\ \E o \in UpsertOutcomes :
        IF o = "ok"
        THEN /\ pc' = "fetch"
             /\ events' = events \o <<"upsert", "sleep_0.5">>
             /\ UNCHANGED last
        ELSE MirrorRaise("upsert", Append(events, "upsert"))
    /\ UNCHANGED <<tickets_file, sent, conv, added, clock, calls, sessions, yielded>>

\* the first verification (fetch); when it does not confirm, time.sleep(1.5)
MirrorFetch ==
    /\ pc = "fetch"
    /\ \E o \in VerifyOutcomes :
        IF o = "found"
        THEN AddExchangeReturn(FALSE, "verified", Append(events, "fetch"))
        ELSE /\ pc' = "query"
             /\ events' = events \o <<"fetch", "sleep_1.5">>
             /\ UNCHANGED last
    /\ UNCHANGED <<tickets_file, sent, conv, added, clock, calls, sessions, yielded>>

\* the second verification (query); the write is left unverified when it fails
MirrorQuery ==
    /\ pc = "query"
    /\ \E o \in VerifyOutcomes :
        AddExchangeReturn(FALSE, IF o = "found" THEN "verified" ELSE "unverified",
                          Append(events, "query"))
    /\ UNCHANGED <<tickets_file, sent, conv, added, clock, calls, sessions, yielded>>

\* the outer handler: record_feedback under a bare except, then return
MirrorErrorFeedback ==
    /\ pc = "error_feedback"
    /\ \E recorder_ok \in BOOLEAN :
        AddExchangeReturn(FALSE, "failed", Append(events, "error_feedback"))
    /\ UNCHANGED <<tickets_file, sent, conv, added, clock, calls, sessions, yielded>>

NextMirror ==
    \/ AddExchangeBegin
    \/ MirrorEmbed
    \/ MirrorUpsert
    \/ MirrorFetch
    \/ MirrorQuery
    \/ MirrorErrorFeedback

SpecMirror == InitMirror /\ [][NextMirror]_vars

(***************************************************************************)
(* Direct calls of generate_chatbot_response, as the command-line loop     *)
(* makes them: on its own ConversationHistory, or without one.             *)
(***************************************************************************)
ShortReply == <<"S","i",".">>

LongReply == Repeat("y", SHORT_RESPONSE_LIMIT)

SaleA == [variant_title |-> <<"A">>, original_price |-> 1000, current_price |-> 850,
          discount_percent |-> 15]

SaleB == [variant_title |-> <<"B">>, original_price |-> 2050, current_price |-> 1845,
          discount_percent |-> 10]

SaleC == [variant_title |-> <<"C">>, original_price |-> 100, current_price |-> 50,
          discount_percent |-> 50]

MatchHigh ==
    [id |-> "p1", score |-> 90,
     metadata |-> [title |-> <<"P","a","n">>, category |-> <<"p">>,
                   price_range |-> <<"$","9">>, availability |-> <<"s","i">>,
                   source_url |-> <<"/","1">>]]

MatchLow ==
    [id |-> "p2", score |-> 40,
     metadata |-> [title |-> <<"C","e","s","t","a">>, category |-> <<"c">>,
                   price_range |-> <<"$","5">>, availability |-> <<"n","o">>,
                   source_url |-> <<"/","2">>, has_active_sale |-> "True",
                   sale_info |-> [valid |-> TRUE, records |-> <<SaleA, SaleB, SaleC>>]]]

MatchBroken ==
    [id |-> "p3", score |-> 85,
     metadata |-> [category |-> <<"x">>, price_range |-> <<"$","1">>,
                   availability |-> <<"s","i">>, source_url |-> <<"/","3">>]]

\* what index.query may return for top_k = TOP_K
Retrievals == { <<>>, <<MatchLow>>, <<MatchHigh, MatchLow>>, <<MatchBroken>> }

CoreQueries ==
    { THUMBS_UP,
      <<"U","n"," ","A","g","e","n","t","e"," ","u","r","g","e","n","t","e">>,
      <<"p","a","n">> }

Stdins == { [eof |-> TRUE, line |-> <<>>], [eof |-> FALSE, line |-> <<>>],
            [eof |-> FALSE, line |-> <<"5">>] }

Completions ==
    { [ok |-> FALSE, reply |-> <<>>], [ok |-> TRUE, reply |-> ShortReply],
      [ok |-> TRUE, reply |-> LongReply] }

\* a call in which every collaborator answers
HealthyEnv ==
    [construct_ok |-> TRUE, embed_ok |-> TRUE, index_ok |-> TRUE, matches |-> <<>>,
     completion_ok |-> TRUE, reply |-> LongReply,
     stdin |-> [eof |-> FALSE, line |-> <<>>], recorder_ok |-> TRUE, ticket_ok |-> TRUE]

\* what the collaborators do during one call: whether the clients can be
\* built, the embedding call, the index query and its matches, the
\* completion call and its text, what input() reads, the feedback recorder
\* and the ticket creator. A collaborator that a failure upstream keeps from
\* being called is left as in HealthyEnv; a call reaches at most one of the
\* recorder and the ticket creator, so at most one of the two fails.
CoreEnvs ==
    {[HealthyEnv EXCEPT !.construct_ok = FALSE, !.recorder_ok = r] : r \in BOOLEAN}
    \cup {[HealthyEnv EXCEPT !.embed_ok = FALSE, !.recorder_ok = r] : r \in BOOLEAN}
    \cup {[HealthyEnv EXCEPT !.index_ok = FALSE, !.recorder_ok = r] : r \in BOOLEAN}
    \cup {[HealthyEnv EXCEPT !.matches = <<MatchBroken>>, !.recorder_ok = r] : r \in BOOLEAN}
    \cup UNION {
           {[HealthyEnv EXCEPT !.matches = m, !.completion_ok = c.ok, !.reply = c.reply,
                               !.stdin = i, !.recorder_ok = f[1], !.ticket_ok = f[2]] :
               m \in Retrievals \ {<<MatchBroken>>}, c \in Completions,
               f \in IF i.eof THEN {<<TRUE, TRUE>>, <<FALSE, TRUE>>}
                     ELSE {<<TRUE, TRUE>>, <<FALSE, TRUE>>, <<TRUE, FALSE>>}} :
           i \in Stdins }

SeedExchange(i) == Exchange(i - 1, <<"p","a","n">>, ShortReply, <<>>)

RECURSIVE SeedHistory(_)
\* the history after k add_exchange calls on a new ConversationHistory
SeedHistory(k) ==
    IF k = 0 THEN <<>>
    ELSE AppendBounded(SeedHistory(k - 1), DEFAULT_MAX_HISTORY, SeedExchange(k))

InitCore ==
    /\ \E k \in 0..MaxSeed :
        /\ conv = [NewHistory(DEFAULT_MAX_HISTORY, TRUE) EXCEPT !.history = SeedHistory(k)]
        /\ added = [i \in 1..k |-> SeedExchange(i)]
        /\ clock = k
    /\ calls = 0
    /\ last = [op |-> "create"]
    /\ sessions = NoUsers
    /\ yielded = NoYield
    /\ pc = "idle"
    /\ events = <<>>
    /\ tickets_file = <<>>
    /\ sent = <<>>

\* what a call leaves in `last`
CallRecord(query, passed, before, env, r) ==
    [op |-> "generate_chatbot_response", query |-> query, passed |-> passed,
     before |-> before, raised |-> r.raised, failed_at |-> r.failed_at,
     payload |-> r.payload, after |-> r.history,
     recorded |-> r.recorded, tickets |-> r.tickets,
     provider_calls |-> r.provider_calls,
     completion_raised |-> (r.provider_calls = 1 /\ ~env.completion_ok),
     retrieved |-> (env.construct_ok /\ env.embed_ok /\ env.index_ok),
     candidates |-> IF env.construct_ok /\ env.embed_ok /\ env.index_ok
                    THEN env.matches ELSE <<>>,
     prompt |-> IF r.provider_calls = 1 THEN PromptOf(query, before, env) ELSE NoPrompt]

\* generate_chatbot_response(query, "cli", conv)
CoreCallWithHistory ==
    /\ calls < MaxCoreCalls
    /\ \E q \in CoreQueries, env \in CoreEnvs :
        LET r == GenerateChatbotResponse(q, "cli", conv.history, conv.max_history, env, clock)
        IN  /\ conv' = [conv EXCEPT !.history = r.history]
            /\ last' = CallRecord(q, TRUE, conv.history, env, r)
    /\ clock' = clock + 1
    /\ calls' = calls + 1
    /\ UNCHANGED <<tickets_file, sent, added, sessions, yielded, pc, events>>

\* generate_chatbot_response(query, user_id="cli"): the call makes a history of its own
CoreCallWithoutHistory ==
    /\ calls < MaxCoreCalls
    /\ \E q \in CoreQueries, env \in CoreEnvs :
        LET r == GenerateChatbotResponse(q, "cli", <<>>, DEFAULT_MAX_HISTORY, env, clock)
        IN  last' = CallRecord(q, FALSE, <<>>, env, r)
    /\ clock' = clock + 1
    /\ calls' = calls + 1
    /\ UNCHANGED <<tickets_file, sent, conv, added, sessions, yielded, pc, events>>

NextCore ==
    \/ CoreCallWithHistory
    \/ CoreCallWithoutHistory

SpecCore == InitCore /\ [][NextCore]_vars

(***************************************************************************)
(* similarity_search formatting one match, over matches with and without   *)
(* an active sale.                                                          *)
(***************************************************************************)
\* a record whose stored percentage is not the one its prices give
SaleStale == [variant_title |-> <<"D">>, original_price |-> 1000, current_price |-> 900,
              discount_percent |-> 25]

SaleRecords == {SaleA, SaleB, SaleStale}

SaleLists == UNION {[1..n -> SaleRecords] : n \in 0..MaxSales}

\* the stored has_active_sale: the strings 'True' and 'False', or no such key
SaleFlags == {"True", "False", "absent"}

SaleMatch(flag, valid, records) ==
    LET md == [title |-> <<"P","a","n">>, category |-> <<"p">>,
               price_range |-> <<"$","9">>, availability |-> <<"s","i">>,
               source_url |-> <<"/","1">>,
               sale_info |-> [valid |-> valid, records |-> records]]
    IN  [id |-> "p1", score |-> 90,
         metadata |-> IF flag = "absent" THEN md
                      ELSE [k \in DOMAIN md \cup {"has_active_sale"} |->
                               IF k = "has_active_sale" THEN flag ELSE md[k]]]

InitFormat ==
    /\ conv = NewHistory(DEFAULT_MAX_HISTORY, TRUE)
    /\ added = <<>>
    /\ clock = 0
    /\ calls = 0
    /\ last = [op |-> "create"]
    /\ sessions = NoUsers
    /\ yielded = NoYield
    /\ pc = "idle"
    /\ events = <<>>
    /\ tickets_file = <<>>
    /\ sent = <<>>

\* one pass of the loop of similarity_search over a match
FormatMatch ==
    /\ \E flag \in SaleFlags, valid \in BOOLEAN, records \in SaleLists :
        LET match == SaleMatch(flag, valid, records)
        IN  last' = [op |-> "similarity_search", match |-> match,
                     document |-> Document(match)]
    /\ UNCHANGED <<tickets_file, sent, conv, added, clock, calls, sessions, yielded, pc, events>>

NextFormat == FormatMatch

SpecFormat == InitFormat /\ [][NextFormat]_vars

(***************************************************************************)
(* One call of generate_chatbot_response step by step: the statements of   *)
(* the try block and of qa_chain in program order, each collaborator       *)
(* answering or raising when it is called.                                 *)
(***************************************************************************)
PhaseOrder == <<"RECEIVED", "RETRIEVING", "PROMPTING", "GENERATING">>

Outcomes == {"SUCCEEDED", "DEGRADED"}

\* a wrong qa_chain: the exchange is stored before the prompt is built
QaChainAppendFirst ==
    <<"embed", "index_query", "format", "append", "read_context", "completion">>

\* the statements of qa_chain (with similarity_search inlined), in program order
QaChainSteps ==
    <<"embed", "index_query", "format", "read_context", "completion", "append">>

\* the statement that follows `step`; after the last one qa_chain returns
Following(step) ==
    LET i == CHOOSE j \in 1..Len(QaChainSteps) : QaChainSteps[j] = step
    IN  IF i < Len(QaChainSteps) THEN QaChainSteps[i + 1] ELSE "after_answer"

\* a wrong generate_response: the provider is called again after a failure
RetryCompletion(ok) == IF ok THEN Following("completion") ELSE "completion"

\* generate_response returns once, with the text or with the apology
AfterCompletion(ok) == Following("completion")

\* what input(), the recorder and the ticket creator do after the answer
AfterEnvs ==
    UNION { {[HealthyEnv EXCEPT !.stdin = i, !.recorder_ok = f[1], !.ticket_ok = f[2]] :
                f \in IF i.eof THEN {<<TRUE, TRUE>>, <<FALSE, TRUE>>}
                      ELSE {<<TRUE, TRUE>>, <<FALSE, TRUE>>, <<TRUE, FALSE>>}} :
            i \in Stdins }

\* the phase a statement opens, when it opens one
Mark(log, phase) == IF \E i \in 1..Len(log) : log[i] = phase THEN log ELSE Append(log, phase)

InitRequest ==
    /\ \E k \in 0..MaxSeed :
        /\ conv = [NewHistory(DEFAULT_MAX_HISTORY, TRUE) EXCEPT !.history = SeedHistory(k)]
        /\ added = [i \in 1..k |-> SeedExchange(i)]
        /\ clock = k
    /\ calls = 0
    /\ last = [op |-> "create"]
    /\ sessions = NoUsers
    /\ yielded = NoYield
    /\ pc = "idle"
    /\ events = <<>>
    /\ tickets_file = <<>>
    /\ sent = <<>>

\* the call returns: r is what Degraded, or AfterAnswer, made of it
RequestReturn(r, log) ==
    /\ pc' = "idle"
    /\ events' = Append(log, IF r.failed_at = "none" THEN "SUCCEEDED" ELSE "DEGRADED")
    /\ last' = [last EXCEPT !.returned = TRUE, !.raised = r.raised,
                            !.failed_at = r.failed_at, !.payload = r.payload,
                            !.recorded = r.recorded, !.tickets = r.tickets]

\* an exception at `stage` reaches the except branch of generate_chatbot_response
RequestDegrade(stage, log) ==
    \E recorder_ok \in BOOLEAN :
        RequestReturn(Degraded(stage, last.query, "cli", conv.history,
                               [HealthyEnv EXCEPT !.recorder_ok = recorder_ok],
                               <<>>, <<>>, last.provider_calls), log)

\* generate_chatbot_response(query, "cli", conv) is entered
RequestBegin ==
    /\ pc = "idle"
    /\ calls < MaxCoreCalls
    /\ \E q \in CoreQueries :
        last' = [op |-> "generate_chatbot_response", returned |-> FALSE, query |-> q,
                 before |-> conv.history, docs |-> <<>>, matches |-> <<>>,
                 response |-> <<>>, prompt |-> NoPrompt, provider_calls |-> 0,
                 completion_raised |-> FALSE, raised |-> FALSE, failed_at |-> "none",
                 payload |-> NoPayload, recorded |-> <<>>, tickets |-> <<>>]
    /\ pc' = "construct"
    /\ events' = <<"RECEIVED">>
    /\ calls' = calls + 1
    /\ UNCHANGED <<tickets_file, sent, conv, added, clock, sessions, yielded>>

\* create_claude_qa_chain: the completion client, the index and the embeddings
RequestConstruct ==
    /\ pc = "construct"
    /\ \E ok \in BOOLEAN :
        IF ok
        THEN pc' = QaChainSteps[1] /\ events' = Append(events, "construct") /\ UNCHANGED last
        ELSE RequestDegrade("construct", Append(events, "construct"))
    /\ UNCHANGED <<tickets_file, sent, conv, added, clock, calls, sessions, yielded>>

\* embeddings.embed_query(query)
RequestEmbed ==
    /\ pc = "embed"
    /\ LET log == Append(Mark(events, "RETRIEVING"), "embed")
       IN  \E ok \in BOOLEAN :
            IF ok
            THEN pc' = Following("embed") /\ events' = log /\ UNCHANGED last
            ELSE RequestDegrade("embed", log)
    /\ UNCHANGED <<tickets_file, sent, conv, added, clock, calls, sessions, yielded>>

\* index.query(vector, top_k=3)
RequestIndexQuery ==
    /\ pc = "index_query"
    /\ LET log == Append(Mark(events, "RETRIEVING"), "index_query")
       IN  \/ \E m \in Retrievals :
                /\ pc' = Following("index_query")
                /\ events' = log
                /\ last' = [last EXCEPT !.matches = m]
           \/ RequestDegrade("query", log)
    /\ UNCHANGED <<tickets_file, sent, conv, added, clock, calls, sessions, yielded>>

\* the loop of similarity_search over the matches; then it returns the documents
RequestFormat ==
    /\ pc = "format"
    /\ LET log == Append(Mark(events, "RETRIEVING"), "format")
       IN  IF \E i \in 1..Len(last.matches) : FormatRaises(last.matches[i])
           THEN RequestDegrade("format", log)
           ELSE /\ pc' = Following("format")
                /\ events' = Append(log, "retrieved")
                /\ last' = [last EXCEPT !.docs = Documents(last.matches)]
    /\ UNCHANGED <<tickets_file, sent, conv, added, clock, calls, sessions, yielded>>

\* the context join, conversation_history.get_context(), QA_CHAIN_PROMPT.format
RequestReadContext ==
    /\ pc = "read_context"
    /\ pc' = Following("read_context")
    /\ events' = Append(Mark(events, "PROMPTING"), "read_context")
    /\ last' = [last EXCEPT !.prompt =
                    Prompt(JoinContents(last.docs, 1),
                           GetContext(conv.history, DEFAULT_MAX_CHARS), last.query)]
    /\ UNCHANGED <<tickets_file, sent, conv, added, clock, calls, sessions, yielded>>

\* generate_response(prompt): client.messages.create under try/except
RequestCompletion ==
    /\ pc = "completion"
    /\ \E c \in Completions :
        /\ pc' = AfterCompletion(c.ok)
        /\ last' = [last EXCEPT !.response = IF c.ok THEN c.reply ELSE CLAUDE_APOLOGY,
                                !.provider_calls = @ + 1,
                                !.completion_raised = ~c.ok]
    /\ events' = Append(Mark(events, "GENERATING"), "completion")
    /\ UNCHANGED <<tickets_file, sent, conv, added, clock, calls, sessions, yielded>>

\* conversation_history.add_exchange(query, response, docs)
RequestAppend ==
    /\ pc = "append"
    /\ pc' = Following("append")
    /\ events' = Append(events, "append")
    /\ conv' = [conv EXCEPT !.history =
                    AppendBounded(conv.history, conv.max_history,
                                  Exchange(clock, last.query, last.response, last.docs))]
    /\ clock' = clock + 1
    /\ UNCHANGED <<tickets_file, sent, added, calls, last, sessions, yielded>>

\* the sources loop and the three branches after the answer, then the return
RequestAfterAnswer ==
    /\ pc = "after_answer"
    /\ \E env \in AfterEnvs :
        RequestReturn(AfterAnswer(last.query, "cli", last.response, last.docs,
                                  conv.history, env),
                      Append(events, "after_answer"))
    /\ UNCHANGED <<tickets_file, sent, conv, added, clock, calls, sessions, yielded>>

NextRequest ==
    \/ RequestBegin
    \/ RequestConstruct
    \/ RequestEmbed
    \/ RequestIndexQuery
    \/ RequestFormat
    \/ RequestReadContext
    \/ RequestCompletion
    \/ RequestAppend
    \/ RequestAfterAnswer

SpecRequest == InitRequest /\ [][NextRequest]_vars

(***************************************************************************)
(* The chat API: init_chat and handle_message on the process-wide sessions *)
(***************************************************************************)
UserIdArgs == {"", "u1", "u2"}

GeneratedIds == {"user_0"}

ApiMessages ==
    { <<>>, <<" ">>,
      <<"h","o","l","a">>,
      <<"U","n"," ","H","U","M","A","N","O">>,
      <<"s","o","p","o","r","t","e">> }

\* the collaborators during a request: all answering (one low-score match),
\* the completion call raising, or the embedding call raising
ApiEnvs ==
    { [HealthyEnv EXCEPT !.matches = <<MatchLow>>],
      [HealthyEnv EXCEPT !.matches = <<MatchLow>>, !.completion_ok = FALSE, !.reply = <<>>],
      [HealthyEnv EXCEPT !.embed_ok = FALSE] }

\* every collaborator answers: retrieval and the completion call succeed
AllAnswer(env) ==
    /\ env.construct_ok /\ env.embed_ok /\ env.index_ok /\ env.completion_ok
    /\ \A i \in 1..Len(env.matches) : ~FormatRaises(env.matches[i])
    /\ ~env.stdin.eof /\ env.recorder_ok /\ env.ticket_ok

IntentOf(payload) ==
    IF "detected_intent" \in DOMAIN payload THEN payload.detected_intent ELSE "absent"

InitApi ==
    /\ conv = NewHistory(DEFAULT_MAX_HISTORY, TRUE)
    /\ added = <<>>
    /\ clock = 0
    /\ calls = 0
    /\ last = [op |-> "start"]
    /\ sessions = NoUsers
    /\ yielded = NoYield
    /\ pc = "idle"
    /\ events = <<>>
    /\ tickets_file = <<>>
    /\ sent = <<>>

InitChat ==
    /\ calls < MaxRequests
    /\ \E j \in BOOLEAN, u \in UserIdArgs, g \in GeneratedIds, p \in BOOLEAN :
        LET data == [has_json |-> j, user_id |-> u]
            r == InitChatResult(data, g, p, sessions)
        IN  /\ sessions' = r.sessions
            /\ last' = [op |-> "init_chat", data |-> data, code |-> r.code,
                        payload |-> r.payload,
                        had_session |-> (j /\ (IF u = "" THEN g ELSE u) \in DOMAIN sessions)]
    /\ calls' = calls + 1
    /\ UNCHANGED <<tickets_file, sent, conv, added, clock, yielded, pc, events>>
    /\ tickets_file = <<>>
    /\ sent = <<>>

HandleMessage ==
    /\ calls < MaxRequests
    /\ \E j \in BOOLEAN, u \in UserIdArgs, m \in ApiMessages, env \in ApiEnvs :
        LET data == [has_json |-> j, user_id |-> u, message |-> m]
            r == HandleMessageResult(data, env, sessions, clock)
            answered == j /\ u \in DOMAIN sessions /\ Strip(m) # <<>>
        IN  /\ sessions' = r.sessions
            /\ last' = [op |-> "handle_message", data |-> data, code |-> r.code,
                        payload |-> r.payload, had_session |-> (u \in DOMAIN sessions),
                        answered |-> answered, invoked |-> r.invoked,
                        entered |-> r.entered,
                        all_answer |-> AllAnswer(env), reply |-> env.reply]
            /\ yielded' = IF answered
                          THEN Put(yielded, m,
                                   (IF m \in DOMAIN yielded THEN yielded[m] ELSE {})
                                   \cup {<<u, IntentOf(r.payload)>>})
                          ELSE yielded
    /\ clock' = clock + 1
    /\ calls' = calls + 1
    /\ UNCHANGED <<tickets_file, sent, conv, added, pc, events>>

RatingArgs == { [kind |-> "none"], [kind |-> "str"],
                [kind |-> "int", value |-> 0], [kind |-> "int", value |-> 4] }

HandleFeedback ==
    /\ calls < MaxRequests
    /\ \E j \in BOOLEAN, u \in UserIdArgs, rating \in RatingArgs, recorder_ok \in BOOLEAN :
        LET data == [has_json |-> j, user_id |-> u, rating |-> rating]
            r == HandleFeedbackResult(data, sessions, recorder_ok)
        IN  last' = [op |-> "handle_feedback", data |-> data, code |-> r.code,
                     payload |-> r.payload, recorded |-> r.recorded,
                     had_session |-> (u \in DOMAIN sessions)]
    /\ calls' = calls + 1
    /\ UNCHANGED <<tickets_file, sent, conv, added, clock, sessions, yielded, pc, events>>

\* a contact_info that passes validation, and variations of it
ValidContact ==
    [name |-> Str(<<"A","n","a">>),
     email |-> Str(<<"a","@","b",".","m","x">>),
     phone |-> Str(<<"(","8","1",")"," ","1","2","3","4","-","5","6","7","8">>)]

ContactArgs ==
    { [is_dict |-> FALSE, info |-> [k \in {} |-> Null]],
      [is_dict |-> TRUE, info |-> [k \in {"name", "email"} |-> ValidContact[k]]],
      [is_dict |-> TRUE, info |-> ValidContact],
      [is_dict |-> TRUE, info |-> [ValidContact EXCEPT !.name = Str(<<"A"," ">>)]],
      [is_dict |-> TRUE, info |-> [ValidContact EXCEPT !.email = Str(<<"a","@","b">>)]],
      [is_dict |-> TRUE, info |-> [ValidContact EXCEPT !.phone = Str(<<"8","1","1">>)]],
      [is_dict |-> TRUE, info |-> [ValidContact EXCEPT !.phone = Null]] }

\* the ticket file and the mail server during one request
SupportEnvs ==
    { [write_ok |-> TRUE, email_enabled |-> FALSE, mail |-> "none"],
      [write_ok |-> TRUE, email_enabled |-> TRUE, mail |-> "both"],
      [write_ok |-> TRUE, email_enabled |-> TRUE, mail |-> "team_only"],
      [write_ok |-> FALSE, email_enabled |-> TRUE, mail |-> "both"] }

\* the contact information and the surroundings tried on the full API
ApiContactArgs ==
    { c \in ContactArgs :
        \/ ~c.is_dict
        \/ c.info = ValidContact
        \/ c.is_dict /\ DOMAIN c.info = RequiredContactKeys
           /\ c.info = [ValidContact EXCEPT !.email = Str(<<"a","@","b">>)] }

ApiSupportEnvs == { env \in SupportEnvs : env.write_ok => ~env.email_enabled }

\* the bodies of the support requests tried: one without JSON, and with JSON
\* every user id with every contact information
SupportRequests(contacts) ==
    { [has_json |-> FALSE, user_id |-> "", contact_is_dict |-> FALSE,
       contact_info |-> [k \in {} |-> Null]] }
    \cup { [has_json |-> TRUE, user_id |-> u, contact_is_dict |-> c.is_dict,
            contact_info |-> c.info] : u \in UserIdArgs, c \in contacts }

\* request_support serving `data` while the surroundings are `env`
SupportStep(data, env) ==
    LET r == RequestSupportResult(data, sessions, tickets_file, sent, env, clock)
    IN  /\ last' = [op |-> "request_support", data |-> data, code |-> r.code,
                    payload |-> r.payload, raised |-> r.raised, env |-> env,
                    had_session |-> (data.user_id \in DOMAIN sessions)]
        /\ tickets_file' = r.file
        /\ sent' = r.sent
        /\ clock' = clock + 1
        /\ calls' = calls + 1
        /\ UNCHANGED <<conv, added, sessions, yielded, pc, events>>

RequestSupport ==
    /\ calls < MaxRequests
    /\ \E data \in SupportRequests(ApiContactArgs), env \in ApiSupportEnvs :
        SupportStep(data, env)

NextApi ==
    \/ InitChat
    \/ HandleMessage
    \/ HandleFeedback
    \/ RequestSupport

SpecApi == InitApi /\ [][NextApi]_vars

(***************************************************************************)
(* The support endpoint on its own: sessions are started and support is    *)
(* requested with every kind of contact information, while the ticket file *)
(* and the mail server succeed or fail.                                    *)
(***************************************************************************)
RequestSupportAny ==
    /\ calls < MaxSupportRequests
    /\ \E data \in SupportRequests(ContactArgs), env \in SupportEnvs :
        SupportStep(data, env)

NextSupport ==
    \/ InitChat
    \/ RequestSupportAny

SpecSupport == InitApi /\ [][NextSupport]_vars

(***************************************************************************)
(* add_exchange called by several request threads on one                   *)
(* ConversationHistory, interleaved at its statements: the append, the     *)
(* length check, the removal of the oldest entry. pc maps a thread to the  *)
(* statement it executes next.                                             *)
(***************************************************************************)
Threads == 1..MaxThreads

ThreadSeed(k) == [i \in 1..k |-> Exchange(i - 1, <<"p","a","n">>, <<"s","i">>, <<>>)]

\* the threads inside add_exchange: appended, not yet returned
Appending == { t \in Threads : pc[t] # "idle" }

InitThreads ==
    /\ \E n \in 1..MaxHistoryArg, k \in 0..MaxHistoryArg :
        /\ k <= n
        /\ conv = [NewHistory(n, FALSE) EXCEPT !.history = ThreadSeed(k)]
        /\ clock = k
    /\ added = <<>>
    /\ calls = 0
    /\ last = [op |-> "create"]
    /\ sessions = NoUsers
    /\ yielded = NoYield
    /\ pc = [t \in Threads |-> "idle"]
    /\ events = <<>>
    /\ tickets_file = <<>>
    /\ sent = <<>>

\* self.history.append(exchange)
ThreadAppend(t) ==
    /\ pc[t] = "idle"
    /\ calls < MaxAdds
    /\ conv' = [conv EXCEPT !.history =
                    Append(conv.history, Exchange(clock, <<"h","o","l","a">>, <<"s","i">>, <<>>))]
    /\ pc' = [pc EXCEPT ![t] = "check"]
    /\ last' = [op |-> "append", thread |-> t]
    /\ clock' = clock + 1
    /\ calls' = calls + 1
    /\ UNCHANGED <<tickets_file, sent, added, sessions, yielded, events>>

\* if len(self.history) > self.max_history:
ThreadCheck(t) ==
    /\ pc[t] = "check"
    /\ pc' = [pc EXCEPT ![t] = IF Len(conv.history) > conv.max_history
                               THEN "pop" ELSE "idle"]
    /\ last' = [op |-> "check", thread |-> t]
    /\ UNCHANGED <<tickets_file, sent, conv, added, clock, calls, sessions, yielded, events>>

\* self.history.pop(0), then the return (use_pinecone is False)
ThreadPop(t) ==
    /\ pc[t] = "pop"
    /\ conv' = [conv EXCEPT !.history = Tail(conv.history)]
    /\ pc' = [pc EXCEPT ![t] = "idle"]
    /\ last' = [op |-> "pop", thread |-> t, length |-> Len(conv.history)]
    /\ UNCHANGED <<tickets_file, sent, added, clock, calls, sessions, yielded, events>>

NextThreads ==
    \E t \in Threads :
        \/ ThreadAppend(t)
        \/ ThreadCheck(t)
        \/ ThreadPop(t)

SpecThreads == InitThreads /\ [][NextThreads]_vars

(***************************************************************************)
(* The same request when a collaborator may stay silent: the statements    *)
(* that run on their own are taken sooner or later, while a statement that *)
(* waits for an answer (an embedding, the index, the completion, the       *)
(* mirror write, a line of standard input) proceeds only when the answer   *)
(* comes; no call is given a timeout.                                      *)
(***************************************************************************)
\* whether the branches after the answer call input()
ReadsStdin(query, response, history) ==
    /\ Strip(query) \notin {THUMBS_UP, THUMBS_DOWN}
    /\ \/ AnyIn(handoff_words, Lower(query))
       \/ AnyIn(frustration_keywords, Lower(query))
       \/ Len(history) > 3
       \/ Len(response) < SHORT_RESPONSE_LIMIT

\* the request is inside a call that returns only when a collaborator answers
WaitsForAnswer ==
    \/ pc \in {"embed", "index_query", "completion"}
    \/ pc = "append" /\ conv.use_pinecone
    \/ pc = "after_answer" /\ ReadsStdin(last.query, last.response, conv.history)

\* a step of the request that needs nobody's answer
LocalStep == ~WaitsForAnswer /\ NextRequest

SpecWait == InitRequest /\ [][NextRequest]_vars /\ WF_vars(LocalStep)

(***************************************************************************)
(* create_support_ticket called by several request threads with valid      *)
(* contact information, interleaved at its accesses to the ticket file:    *)
(* the read of the stored list, the write of the extended list, the        *)
(* notification and return. Each thread serves one request. pc maps a      *)
(* thread to where it stands, with the ticket it built and the list it     *)
(* read; events lists the tickets whose ids were returned.                 *)
(***************************************************************************)
\* the contact information sent by the client served on thread t
ThreadContact(t) == [ValidContact EXCEPT !.name = Str(<<"A","n","a">> \o Decimal(t))]

Resting == [at |-> "idle", ticket |-> <<>>, tickets |-> <<>>]

InitRace ==
    /\ conv = NewHistory(DEFAULT_MAX_HISTORY, TRUE)
    /\ added = <<>>
    /\ clock = 0
    /\ calls = 0
    /\ last = [op |-> "start"]
    /\ sessions = NoUsers
    /\ yielded = NoYield
    /\ pc = [t \in Threads |-> Resting]
    /\ events = <<>>
    /\ tickets_file = <<>>
    /\ sent = <<>>

\* validation passes; ticket_id and the ticket dict are built (two calls
\* within one second get the same id)
TicketBuild(t) ==
    /\ pc[t].at = "idle"
    /\ ValidateContactInfo(ThreadContact(t)) = [raised |-> FALSE, errors |-> <<>>]
    /\ \E now \in {clock, clock + 1} :
        /\ pc' = [pc EXCEPT ![t] =
                    [at |-> "read", tickets |-> <<>>,
                     ticket |-> Ticket(now, <<>>, <<>>, <<>>, ThreadContact(t), "media",
                                       SUPPORT_REASON_TEXT)]]
        /\ clock' = now
    /\ calls' = calls + 1
    /\ last' = [op |-> "build", thread |-> t]
    /\ UNCHANGED <<tickets_file, sent, conv, added, sessions, yielded, events>>

\* tickets = json.load(f)
TicketRead(t) ==
    /\ pc[t].at = "read"
    /\ pc' = [pc EXCEPT ![t].at = "write", ![t].tickets = tickets_file]
    /\ last' = [op |-> "read", thread |-> t]
    /\ UNCHANGED <<tickets_file, sent, conv, added, clock, calls, sessions, yielded, events>>

\* tickets.append(ticket); json.dump(tickets, f)
TicketWrite(t) ==
    /\ pc[t].at = "write"
    /\ tickets_file' = Append(pc[t].tickets, pc[t].ticket)
    /\ pc' = [pc EXCEPT ![t].at = "notify"]
    /\ last' = [op |-> "write", thread |-> t]
    /\ UNCHANGED <<sent, conv, added, clock, calls, sessions, yielded, events>>

\* the notification when mail is enabled, then return ticket_id
TicketReturn(t) ==
    /\ pc[t].at = "notify"
    /\ \E env \in { e \in SupportEnvs : e.write_ok } :
        sent' = sent \o Notifications(pc[t].ticket, env)
    /\ events' = Append(events, pc[t].ticket)
    /\ pc' = [pc EXCEPT ![t].at = "done"]
    /\ last' = [op |-> "return", thread |-> t, ticket_id |-> pc[t].ticket.ticket_id]
    /\ UNCHANGED <<tickets_file, conv, added, clock, calls, sessions, yielded>>

NextRace ==
    \E t \in Threads :
        \/ TicketBuild(t)
        \/ TicketRead(t)
        \/ TicketWrite(t)
        \/ TicketReturn(t)

SpecRace == InitRace /\ [][NextRace]_vars

(***************************************************************************)
(* Requests served on several threads at once (the development server      *)
(* started by app.run handles each request on its own thread): init_chat   *)
(* writes the session map in one statement; handle_message first looks the *)
(* session up and holds it, then calls the core with it and answers.       *)
(* pc maps a thread to the request it serves. No statement of either       *)
(* handler takes a lock.                                                   *)
(***************************************************************************)
Waiting == [at |-> "idle"]

\* the threads that hold the history of user_id, between lookup and answer
Holding(user_id) ==
    { t \in Threads : pc[t].at = "holding" /\ pc[t].data.user_id = user_id }

InitHandlers ==
    /\ conv = NewHistory(DEFAULT_MAX_HISTORY, TRUE)
    /\ added = <<>>
    /\ clock = 0
    /\ calls = 0
    /\ last = [op |-> "start"]
    /\ sessions = NoUsers
    /\ yielded = NoYield
    /\ pc = [t \in Threads |-> Waiting]
    /\ events = <<>>
    /\ tickets_file = <<>>
    /\ sent = <<>>

\* init_chat on thread t: sessions[user_id] = ConversationHistory(user_id=user_id)
ThreadInitChat(t) ==
    /\ pc[t].at = "idle"
    /\ calls < MaxRequests
    /\ \E u \in UserIdArgs \ {""}, p \in BOOLEAN :
        LET data == [has_json |-> TRUE, user_id |-> u]
            r == InitChatResult(data, "user_0", p, sessions)
        IN  /\ sessions' = r.sessions
            /\ last' = [op |-> "init_chat", thread |-> t, data |-> data, code |-> r.code]
    /\ calls' = calls + 1
    /\ UNCHANGED <<tickets_file, sent, conv, added, clock, yielded, pc, events>>

\* handle_message on thread t up to conversation_history = sessions.get(user_id),
\* for a request that passes the checks
ThreadLookup(t) ==
    /\ pc[t].at = "idle"
    /\ calls < MaxRequests
    /\ \E u \in DOMAIN sessions, m \in { x \in ApiMessages : Strip(x) # <<>> } :
        LET data == [has_json |-> TRUE, user_id |-> u, message |-> m]
        IN  /\ SessionsGet(sessions, u).found
            /\ pc' = [pc EXCEPT ![t] = [at |-> "holding", data |-> data]]
            /\ last' = [op |-> "lookup", thread |-> t, data |-> data]
    /\ calls' = calls + 1
    /\ UNCHANGED <<tickets_file, sent, conv, added, clock, sessions, yielded, events>>

\* the rest of handle_message on thread t: the call of the core with the
\* history it holds, and the answer
ThreadAnswer(t) ==
    /\ pc[t].at = "holding"
    /\ \E env \in ApiEnvs :
        LET r == HandleMessageResult(pc[t].data, env, sessions, clock)
        IN  /\ sessions' = r.sessions
            /\ last' = [op |-> "answer", thread |-> t, data |-> pc[t].data,
                        code |-> r.code, payload |-> r.payload]
    /\ pc' = [pc EXCEPT ![t] = Waiting]
    /\ clock' = clock + 1
    /\ UNCHANGED <<tickets_file, sent, conv, added, calls, yielded, events>>

NextHandlers ==
    \E t \in Threads :
        \/ ThreadInitChat(t)
        \/ ThreadLookup(t)
        \/ ThreadAnswer(t)

SpecHandlers == InitHandlers /\ [][NextHandlers]_vars

(***************************************************************************)
(* api/chat_api.py : the Shopify chat endpoint                             *)
(***************************************************************************)
SEMANTIC_MIN == 50

SHOPIFY_SUFFIX ==
    <<".","m","y","s","h","o","p","i","f","y",".","c","o","m">>

INVALID_SHOP_TEXT ==
    <<"D","o","m","i","n","i","o"," ","d","e"," ","t","i","e","n","d","a"," ","d","e"," ","S",
      "h","o","p","i","f","y"," ","i","n","v","U+00E1","l","i","d","o">>

SHOPIFY_REQUIRED_TEXT ==
    <<"M","e","n","s","a","j","e"," ","y"," ","u","s","e","r","_","i","d"," ","s","o","n"," ",
      "r","e","q","u","e","r","i","d","o","s">>

OUT_OF_HOURS_TEXT ==
    <<"G","r","a","c","i","a","s"," ","p","o","r"," ","c","o","n","t","a","c","t","a","r","n",
      "o","s","."," ","N","u","e","s","t","r","o"," ","h","o","r","a","r","i","o"," ","d","e",
      " ","a","t","e","n","c","i","U+00F3","n"," ","e","s"," ","d","e"," ","l","u","n","e","s",
      " ","a"," ","v","i","e","r","n","e","s"," ","d","e"," ","9",":","0","0"," ","A","M"," ",
      "a"," ","6",":","0","0"," ","P","M",","," ","y"," ","s","U+00E1","b","a","d","o","s"," ",
      "d","e"," ","1","0",":","0","0"," ","A","M"," ","a"," ","4",":","0","0"," ","P","M",".",
      " ","T","e"," ","r","e","s","p","o","n","d","e","r","e","m","o","s"," ","e","n"," ","n",
      "u","e","s","t","r","o"," ","p","r","U+00F3","x","i","m","o"," ","h","o","r","a","r","i",
      "o"," ","d","e"," ","a","t","e","n","c","i","U+00F3","n",".">>

SHOPIFY_FAILED_TEXT ==
    <<"E","r","r","o","r"," ","p","r","o","c","e","s","a","n","d","o"," ","m","e","n","s","a",
      "j","e">>

FOUND_PREFIX ==
    <<"E","n","c","o","n","t","r","U+00E9"," ">>

FOUND_UNIT ==
    <<" ","p","r","o","d","u","c","t","o">>

FOUND_SUFFIX ==
    <<" ","q","u","e"," ","p","o","d","r","U+00ED","a","n"," ","i","n","t","e","r","e","s","a",
      "r","t","e",":">>

PRICES_TEXT ==
    <<"A","q","u","U+00ED"," ","t","i","e","n","e","s"," ","i","n","f","o","r","m","a","c","i",
      "U+00F3","n"," ","d","e"," ","p","r","e","c","i","o","s",":">>

AVAILABLE_TEXT ==
    <<"E","s","t","o","s"," ","p","r","o","d","u","c","t","o","s"," ","e","s","t","U+00E1","n",
      " ","d","i","s","p","o","n","i","b","l","e","s"," ","a","h","o","r","a",":">>

UNAVAILABLE_TEXT ==
    <<"L","o","s"," ","p","r","o","d","u","c","t","o","s"," ","q","u","e"," ","m","e","n","c",
      "i","o","n","a","s"," ","n","o"," ","e","s","t","U+00E1","n"," ","d","i","s","p","o","n",
      "i","b","l","e","s"," ","a","c","t","u","a","l","m","e","n","t","e","."," ","U+00BF","T",
      "e"," ","i","n","t","e","r","e","s","a"," ","a","l","g","o"," ","m","U+00E1","s","?">>

NOT_FOUND_TEXT ==
    <<"N","o"," ","e","n","c","o","n","t","r","U+00E9"," ","p","r","o","d","u","c","t","o","s",
      " ","e","s","p","e","c","U+00ED","f","i","c","o","s"," ","c","o","n"," ","e","s","o","s",
      " ","t","U+00E9","r","m","i","n","o","s",","," ","p","e","r","o"," ","p","u","e","d","o",
      " ","a","y","u","d","a","r","t","e"," ","a"," ","e","n","c","o","n","t","r","a","r"," ",
      "a","l","g","o"," ","m","U+00E1","s","."," ","U+00BF","Q","u","U+00E9"," ","t","i","p",
      "o"," ","d","e"," ","p","r","o","d","u","c","t","o"," ","d","e"," ","p","a","n","a","d",
      "e","r","U+00ED","a"," ","e","s","t","U+00E1","s"," ","b","u","s","c","a","n","d","o","?">>

HANDOFF_TEXT ==
    <<"E","n","t","i","e","n","d","o"," ","q","u","e"," ","n","e","c","e","s","i","t","a","s",
      " ","a","y","u","d","a"," ","e","s","p","e","c","i","a","l","i","z","a","d","a","."," ",
      "P","o","r"," ","f","a","v","o","r",","," ","p","r","e","s","i","o","n","a"," ","e","l",
      " ","b","o","t","U+00F3","n"," ","d","e"," ","a","b","a","j","o"," ","q","u","e"," ","d",
      "i","c","e"," ","\"","H","a","b","l","a","r"," ","c","o","n"," ","a","l","g","u","i","e",
      "n","\""," ","p","a","r","a"," ","q","u","e"," ","n","u","e","s","t","r","o"," ","e","q",
      "u","i","p","o"," ","t","e"," ","c","o","n","t","a","c","t","e"," ","d","i","r","e","c",
      "t","a","m","e","n","t","e",".">>

DEFAULT_WELCOME_TEXT ==
    <<"U+00A1","H","o","l","a","!"," ","B","i","e","n","v","e","n","i","d","o"," ","a"," ","n",
      "u","e","s","t","r","a"," ","p","a","n","a","d","e","r","U+00ED","a","."," ","U+00BF","E",
      "n"," ","q","u","U+00E9"," ","p","u","e","d","o"," ","a","y","u","d","a","r","t","e"," ",
      "h","o","y","?">>

GENERAL_MATCH_TEXT ==
    <<"B","a","s","U+00E1","n","d","o","m","e"," ","e","n"," ","t","u"," ","c","o","n","s","u",
      "l","t","a",","," ","e","s","t","o","s"," ","p","r","o","d","u","c","t","o","s"," ","p",
      "o","d","r","U+00ED","a","n"," ","i","n","t","e","r","e","s","a","r","t","e",":">>

NOT_SYNCED_TEXT ==
    <<"P","a","r","a"," ","p","o","d","e","r"," ","a","y","u","d","a","r","t","e"," ","m","e",
      "j","o","r"," ","c","o","n"," ","n","u","e","s","t","r","o","s"," ","p","r","o","d","u",
      "c","t","o","s",","," ","n","e","c","e","s","i","t","o"," ","q","u","e"," ","e","l"," ",
      "a","d","m","i","n","i","s","t","r","a","d","o","r"," ","s","i","n","c","r","o","n","i",
      "c","e"," ","e","l"," ","c","a","t","U+00E1","l","o","g","o","."," ","M","i","e","n","t",
      "r","a","s"," ","t","a","n","t","o",","," ","U+00BF","e","n"," ","q","u","U+00E9"," ","m",
      "U+00E1","s"," ","p","u","e","d","o"," ","a","s","i","s","t","i","r","t","e","?">>

IN_STOCK ==
    <<"E","n"," ","s","t","o","c","k">>

\* the three texts get_general_shopify_response chooses from
GeneralResponses ==
    <<
    <<"S","o","y"," ","t","u"," ","a","s","i","s","t","e","n","t","e"," ","e","s","p","e","c",
      "i","a","l","i","z","a","d","o"," ","e","n"," ","p","r","o","d","u","c","t","o","s"," ",
      "d","e"," ","p","a","n","a","d","e","r","U+00ED","a","."," ","P","u","e","d","o"," ","a",
      "y","u","d","a","r","t","e"," ","a"," ","e","n","c","o","n","t","r","a","r"," ","p","a",
      "n","e","s",","," ","p","a","s","t","e","l","e","s",","," ","i","n","g","r","e","d","i",
      "e","n","t","e","s"," ","y"," ","m","U+00E1","s","."," ","U+00BF","Q","u","U+00E9"," ",
      "e","s","t","U+00E1","s"," ","b","u","s","c","a","n","d","o"," ","e","s","p","e","c",
      "U+00ED","f","i","c","a","m","e","n","t","e","?">>,
    <<"E","s","t","o","y"," ","a","q","u","U+00ED"," ","p","a","r","a"," ","a","y","u","d","a",
      "r","t","e"," ","c","o","n"," ","c","u","a","l","q","u","i","e","r"," ","p","r","e","g",
      "u","n","t","a"," ","s","o","b","r","e"," ","n","u","e","s","t","r","o","s"," ","p","r",
      "o","d","u","c","t","o","s","."," ","P","u","e","d","o"," ","v","e","r","i","f","i","c",
      "a","r"," ","p","r","e","c","i","o","s",","," ","d","i","s","p","o","n","i","b","i","l",
      "i","d","a","d"," ","y"," ","d","a","r","t","e"," ","r","e","c","o","m","e","n","d","a",
      "c","i","o","n","e","s","."," ","U+00BF","E","n"," ","q","u","U+00E9"," ","p","u","e","d",
      "o"," ","a","s","i","s","t","i","r","t","e","?">>,
    <<"C","o","m","o"," ","e","s","p","e","c","i","a","l","i","s","t","a"," ","e","n"," ","p",
      "a","n","a","d","e","r","U+00ED","a",","," ","p","u","e","d","o"," ","a","y","u","d","a",
      "r","t","e"," ","a"," ","e","n","c","o","n","t","r","a","r"," ","e","x","a","c","t","a",
      "m","e","n","t","e"," ","l","o"," ","q","u","e"," ","n","e","c","e","s","i","t","a","s",
      "."," ","U+00BF","T","e"," ","i","n","t","e","r","e","s","a"," ","a","l","g","U+00FA","n",
      " ","p","r","o","d","u","c","t","o"," ","e","n"," ","p","a","r","t","i","c","u","l","a",
      "r","?">>
    >>

greeting_words ==
    <<
    <<"h","o","l","a">>,
    <<"b","u","e","n","o","s"," ","d","U+00ED","a","s">>,
    <<"b","u","e","n","a","s"," ","t","a","r","d","e","s">>,
    <<"b","u","e","n","a","s"," ","n","o","c","h","e","s">>,
    <<"s","a","l","u","d","o","s">>,
    <<"h","e","y">>
    >>

product_search_words ==
    <<
    <<"b","u","s","c","o">>,
    <<"q","u","i","e","r","o">>,
    <<"n","e","c","e","s","i","t","o">>,
    <<"m","e"," ","i","n","t","e","r","e","s","a">>,
    <<"p","a","n">>,
    <<"p","a","s","t","e","l">>,
    <<"m","a","s","a"," ","m","a","d","r","e">>,
    <<"i","n","g","r","e","d","i","e","n","t","e","s">>,
    <<"h","a","r","i","n","a">>
    >>

price_inquiry_words ==
    <<
    <<"p","r","e","c","i","o">>,
    <<"c","u","e","s","t","a">>,
    <<"c","u","U+00E1","n","t","o">>,
    <<"c","o","s","t","o">>,
    <<"v","a","l","e">>
    >>

availability_words ==
    <<
    <<"d","i","s","p","o","n","i","b","l","e">>,
    <<"h","a","y">>,
    <<"t","i","e","n","e","n">>,
    <<"s","t","o","c","k">>,
    <<"i","n","v","e","n","t","a","r","i","o">>
    >>

support_request_words ==
    <<
    <<"a","y","u","d","a">>,
    <<"h","a","b","l","a","r">>,
    <<"c","o","n","t","a","c","t","a","r">>,
    <<"p","r","o","b","l","e","m","a">>,
    <<"q","u","e","j","a">>,
    <<"s","o","p","o","r","t","e">>,
    <<"a","s","e","s","o","r">>,
    <<"p","e","r","s","o","n","a">>,
    <<"h","u","m","a","n","o">>
    >>

\* \w of a str pattern: letters (accented ones too), digits and the underscore
WordChars ==
    Letters \cup Digits
    \cup {"_", "U+00E1", "U+00E9", "U+00ED", "U+00F3", "U+00FA", "U+00F1", "U+00FC"}

\* re.search(r'\b(word)\b', text): an occurrence with no word character next
\* to it on either side (every listed word begins and ends with a letter)
WordAt(text, word) ==
    \E i \in 0..(Len(text) - Len(word)) :
        /\ SubSeq(text, i + 1, i + Len(word)) = word
        /\ (i = 0 \/ text[i] \notin WordChars)
        /\ (i + Len(word) = Len(text) \/ text[i + Len(word) + 1] \notin WordChars)

AnyWordAt(words, text) == \E i \in 1..Len(words) : WordAt(text, words[i])

\* detect_shopify_intent: the intents whose pattern is found in the message
DetectShopifyIntent(message) ==
    {i \in {"greeting", "product_search", "price_inquiry", "availability", "support_request"} :
        \/ (i = "greeting" /\ AnyWordAt(greeting_words, Lower(message)))
        \/ (i = "product_search" /\ AnyWordAt(product_search_words, Lower(message)))
        \/ (i = "price_inquiry" /\ AnyWordAt(price_inquiry_words, Lower(message)))
        \/ (i = "availability" /\ AnyWordAt(availability_words, Lower(message)))
        \/ (i = "support_request" /\ AnyWordAt(support_request_words, Lower(message)))}

RECURSIVE SplitWords(_)
\* str.split(): the maximal runs of characters that are not white space
SplitWords(s) ==
    LET t == LStrip(s)
    IN  IF t = <<>> THEN <<>>
        ELSE LET n == IF \E j \in 1..Len(t) : t[j] \in WhiteSpace
                      THEN (CHOOSE j \in 1..Len(t) :
                                /\ t[j] \in WhiteSpace
                                /\ \A k \in 1..(j - 1) : t[k] \notin WhiteSpace) - 1
                      ELSE Len(t)
             IN  <<SubSeq(t, 1, n)>> \o SplitWords(SubSeq(t, n + 1, Len(t)))

\* product.get(key, '')
ProductField(product, key) == IF key \in DOMAIN product THEN product[key] ELSE <<>>

RECURSIVE WordScore(_, _)
\* the per-word part of the score, in tenths: 1 for the search text, 1.5 for
\* the title, 1 for the category, over the words longer than two characters
WordScore(words, product) ==
    IF words = <<>> THEN 0
    ELSE (IF Len(Head(words)) > 2
          THEN (IF Contains(Lower(ProductField(product, "search_text")), Head(words))
                THEN 10 ELSE 0)
               + (IF Contains(Lower(ProductField(product, "title")), Head(words))
                  THEN 15 ELSE 0)
               + (IF Contains(Lower(ProductField(product, "category")), Head(words))
                  THEN 10 ELSE 0)
          ELSE 0)
         + WordScore(Tail(words), product)

\* the score of one product, in tenths: 2 more when the whole query is in the title
RelevanceScore(query, product) ==
    (IF Contains(Lower(ProductField(product, "title")), Lower(query)) THEN 20 ELSE 0)
    + WordScore(SplitWords(Lower(query)), product)

\* product.copy() with its relevance_score (in tenths)
Scored(query, product) ==
    [k \in DOMAIN product \cup {"relevance_score"} |->
        IF k = "relevance_score" THEN RelevanceScore(query, product) ELSE product[k]]

RECURSIVE SortByRelevance(_)
\* list.sort(key=relevance_score, reverse=True): descending, and stable
SortByRelevance(scored) ==
    IF scored = <<>> THEN <<>>
    ELSE LET best == CHOOSE i \in 1..Len(scored) :
                         /\ \A j \in 1..Len(scored) :
                                scored[j].relevance_score <= scored[i].relevance_score
                         /\ \A j \in 1..(i - 1) :
                                scored[j].relevance_score < scored[i].relevance_score
         IN  <<scored[best]>>
             \o SortByRelevance(SubSeq(scored, 1, best - 1)
                                \o SubSeq(scored, best + 1, Len(scored)))

RECURSIVE KeepScored(_, _, _)
KeepScored(query, products, threshold) ==
    IF products = <<>> THEN <<>>
    ELSE (IF RelevanceScore(query, Head(products)) >= threshold
          THEN <<Scored(query, Head(products))>> ELSE <<>>)
         \o KeepScored(query, Tail(products), threshold)

\* the parameters of search_shopify_products(query, products, threshold=0.5)
SearchParameters == {"query", "products", "threshold"}

\* the default threshold 0.5 and the looser 0.3, in tenths
DEFAULT_THRESHOLD == 5

GENERAL_THRESHOLD == 3

\* search_shopify_products called with the keyword arguments `keywords`: a
\* keyword that is no parameter is a TypeError before the body runs
SearchShopifyProducts(query, products, threshold, keywords) ==
    IF ~(keywords \subseteq SearchParameters)
    THEN [raised |-> TRUE, products |-> <<>>]
    ELSE [raised |-> FALSE,
          products |-> SortByRelevance(KeepScored(query, products, threshold))]

RECURSIVE InStock(_)
\* [p for p in suggested_products if p.get('availability') == 'En stock']
InStock(products) ==
    IF products = <<>> THEN <<>>
    ELSE (IF "availability" \in DOMAIN Head(products) /\ Head(products).availability = IN_STOCK
          THEN <<Head(products)>> ELSE <<>>)
         \o InStock(Tail(products))

\* what process_shopify_chat_message returns
ShopifyReply(response, suggested_products, detected_intent, context) ==
    [raised |-> FALSE,
     payload |-> [response |-> response,
                  suggested_products |-> SlicePrefix(suggested_products, 4),
                  detected_intent |-> detected_intent,
                  context_used |-> ("page_url" \in DOMAIN context /\ context.page_url # <<>>),
                  sources |-> <<>>]]

ShopifyRaised == [raised |-> TRUE, payload |-> NoPayload]

\* the branches that answer from the synced products alone
LocalAnswer(message, products, config, context, pick) ==
    LET lower_message == Lower(message)
        intents == DetectShopifyIntent(lower_message)
    IN  IF products = <<>>
        THEN ShopifyReply(NOT_SYNCED_TEXT, <<>>, "general", context)
        ELSE IF intents \cap {"product_search", "price_inquiry", "availability"} # {}
        THEN LET found == SearchShopifyProducts(lower_message, products,
                                                DEFAULT_THRESHOLD, {}).products
             IN  IF found = <<>>
                 THEN ShopifyReply(NOT_FOUND_TEXT, <<>>, "general", context)
                 ELSE IF "product_search" \in intents
                 THEN ShopifyReply(FOUND_PREFIX \o Decimal(Len(found)) \o FOUND_UNIT
                                   \o (IF Len(found) > 1 THEN <<"s">> ELSE <<>>)
                                   \o FOUND_SUFFIX,
                                   found, "product_search", context)
                 ELSE IF "price_inquiry" \in intents
                 THEN ShopifyReply(PRICES_TEXT, found, "price_inquiry", context)
                 ELSE IF InStock(found) # <<>>
                 THEN ShopifyReply(AVAILABLE_TEXT, InStock(found), "availability", context)
                 ELSE ShopifyReply(UNAVAILABLE_TEXT, <<>>, "availability", context)
        ELSE IF "support_request" \in intents
        THEN ShopifyReply(HANDOFF_TEXT, <<>>, "intent_to_handoff", context)
        ELSE IF "greeting" \in intents
        THEN ShopifyReply(IF "welcomeMessage" \in DOMAIN config THEN config.welcomeMessage
                          ELSE DEFAULT_WELCOME_TEXT,
                          <<>>, "greeting", context)
        ELSE LET general_results == SearchShopifyProducts(lower_message, products,
                                                          GENERAL_THRESHOLD,
                                                          {"threshold"}).products
             IN  IF general_results # <<>>
                 THEN ShopifyReply(GENERAL_MATCH_TEXT, SlicePrefix(general_results, 3),
                                   "general_product_match", context)
                 ELSE ShopifyReply(GeneralResponses[pick], <<>>, "general", context)

\* process_shopify_chat_message(message, products, config, context): the
\* semantic answer first, `semantic` being what generate_chatbot_response did
ProcessShopifyChatMessage(message, products, config, context, semantic, pick) ==
    LET useful == /\ ~semantic.raised
                  /\ "response" \in DOMAIN semantic.payload
                  /\ Len(semantic.payload.response) > SEMANTIC_MIN
        suggested == SearchShopifyProducts(Lower(message), products, DEFAULT_THRESHOLD,
                                           {"max_results"})
    IN  IF ~useful
        THEN LocalAnswer(message, products, config, context, pick)
        ELSE IF products # <<>> /\ suggested.raised
        THEN ShopifyRaised
        ELSE [raised |-> FALSE,
              payload |-> [response |-> semantic.payload.response,
                           suggested_products |-> IF products # <<>> THEN suggested.products
                                                  ELSE <<>>,
                           detected_intent |-> "semantic_knowledge",
                           sources |-> semantic.payload.sources]]

\* s.endswith(suffix)
EndsWith(s, suffix) ==
    Len(s) >= Len(suffix) /\ SubSeq(s, Len(s) - Len(suffix) + 1, Len(s)) = suffix

\* validate_shopify_store: the X-Shop-Domain header or else the body's shop,
\* and nothing at all when the request has no (or an empty) JSON body, so
\* that the route's own test of the body never fails after it
ValidateShopifyStore(req) ==
    LET shop == IF req.json = NoPayload THEN <<>>
                ELSE IF req.header # <<>> THEN req.header
                ELSE IF "shop" \in DOMAIN req.json THEN req.json.shop
                ELSE <<>>
    IN  IF shop = <<>> \/ ~EndsWith(shop, SHOPIFY_SUFFIX) THEN <<>> ELSE shop

\* shop_configs.get(shop, {}) and shop_products.get(shop, [])
NoConfig == [k \in {} |-> <<>>]

\* the /api/shopify/chat route on one request: `store` is what the two
\* shop tables hold, `open` what is_business_hours answers, `env` what the
\* semantic generator's collaborators do, `pick` what random.choice draws
ShopifyChatResult(req, store, open, env, pick, now) ==
    LET shop == ValidateShopifyStore(req)
        data == req.json
        message == IF "message" \in DOMAIN data THEN Strip(data.message) ELSE <<>>
        context == IF "context" \in DOMAIN data THEN data.context ELSE NoConfig
        config == IF shop \in DOMAIN store THEN store[shop].config ELSE NoConfig
        products == IF shop \in DOMAIN store THEN store[shop].products ELSE <<>>
        semantic == GenerateChatbotResponse(message,
                                            IF "session_id" \in DOMAIN context
                                            THEN context.session_id ELSE "None",
                                            <<>>, DEFAULT_MAX_HISTORY, env, now)
        r == ProcessShopifyChatMessage(message, products, config, context, semantic, pick)
    IN  IF shop = <<>>
        THEN [code |-> 400, entered |-> FALSE,
              payload |-> [success |-> FALSE, error |-> INVALID_SHOP_TEXT]]
        ELSE IF message = <<>> \/ "user_id" \notin DOMAIN data
        THEN [code |-> 400, entered |-> FALSE,
              payload |-> [success |-> FALSE, error |-> SHOPIFY_REQUIRED_TEXT]]
        ELSE IF "businessHours" \in DOMAIN config /\ config.businessHours.enabled /\ ~open
        THEN [code |-> 200, entered |-> FALSE,
              payload |-> [success |-> TRUE, response |-> OUT_OF_HOURS_TEXT,
                           out_of_hours |-> TRUE]]
        ELSE IF r.raised
        THEN [code |-> 500, entered |-> TRUE,
              payload |-> [success |-> FALSE, error |-> SHOPIFY_FAILED_TEXT]]
        ELSE [code |-> 200, entered |-> TRUE,
              payload |-> [k \in DOMAIN r.payload \cup {"success", "shop"} |->
                              IF k = "success" THEN TRUE
                              ELSE IF k = "shop" THEN shop
                              ELSE r.payload[k]]]

(***************************************************************************)
(* Requests to /api/shopify/chat, for shops with and without synced        *)
(* products.                                                               *)
(***************************************************************************)
SHOP_A == <<"a">> \o SHOPIFY_SUFFIX

UsefulReply == Repeat("z", SEMANTIC_MIN + 1)

ProductBread ==
    [title |-> <<"P","a","n"," ","r","u","s","t","i","c","o">>,
     category |-> <<"P","a","n","e","s">>,
     search_text |-> <<"p","a","n"," ","r","u","s","t","i","c","o"," ","m","a","s","a">>,
     availability |-> IN_STOCK]

ProductCake ==
    [title |-> <<"P","a","s","t","e","l">>,
     category |-> <<"P","a","s","t","e","l","e","s">>,
     search_text |-> <<"p","a","s","t","e","l"," ","c","h","o","c","o","l","a","t","e">>,
     availability |-> <<"A","g","o","t","a","d","o">>]

ProductFlour ==
    [title |-> <<"H","a","r","i","n","a">>,
     search_text |-> <<"h","a","r","i","n","a"," ","d","e"," ","p","a","n">>,
     availability |-> IN_STOCK]

Catalog == {ProductBread, ProductCake, ProductFlour}

\* what a sync may have stored for a shop: up to MaxProducts products
ProductLists == UNION { [1..n -> Catalog] : n \in 0..MaxProducts }

CustomWelcome == <<"H","e","y">>

ShopConfigs ==
    { [welcomeMessage |-> CustomWelcome],
      [businessHours |-> [enabled |-> TRUE]],
      [businessHours |-> [enabled |-> FALSE]] }

NoShops == [k \in {} |-> NoConfig]

\* the two shop tables: nothing stored, or the one shop with its products
\* and (for one catalogue) each configuration
ShopStores ==
    {NoShops}
    \cup { [k \in {SHOP_A} |-> [config |-> NoConfig, products |-> p]] : p \in ProductLists }
    \cup { [k \in {SHOP_A} |-> [config |-> c, products |-> <<ProductBread>>]] :
              c \in ShopConfigs }

ShopifyMessages ==
    { <<"H","o","l","a">>,
      <<"b","u","s","c","o"," ","p","a","n">>,
      <<"p","a","s","t","e","l">>,
      <<"p","r","e","c","i","o"," ","r","u","s","t","i","c","o">>,
      <<"h","a","y"," ","r","u","s","t","i","c","o">>,
      <<"t","i","e","n","e","n"," ","c","h","o","c","o","l","a","t","e">>,
      <<"c","u","U+00E1","n","t","o"," ","v","a","l","e">>,
      <<"a","y","u","d","a">>,
      <<"r","u","s","t","i","c","o">>,
      <<"p","a","n","t","a","l","l","a">> }

ShopifyContexts == { NoConfig, [session_id |-> "s1", page_url |-> <<"/","p">>] }

\* request bodies: well-formed ones, then one for each way of being refused
ShopifyRequests ==
    { [header |-> SHOP_A, json |-> [message |-> m, user_id |-> "u1", context |-> c]] :
          m \in ShopifyMessages, c \in ShopifyContexts }
    \cup { [header |-> <<>>, json |-> [shop |-> SHOP_A, message |-> <<" ","p","a","n"," ">>,
                                      user_id |-> "u1"]],
           [header |-> SHOP_A, json |-> NoPayload],
           [header |-> <<"a",".","c","o","m">>,
            json |-> [message |-> <<"p","a","n">>, user_id |-> "u1"]],
           [header |-> SHOP_A, json |-> [message |-> <<" ">>, user_id |-> "u1"]],
           [header |-> SHOP_A, json |-> [message |-> <<"p","a","n">>]] }

\* what the semantic generator's collaborators do during a request
ShopifyEnvs ==
    { [HealthyEnv EXCEPT !.matches = <<MatchHigh, MatchLow>>, !.reply = UsefulReply],
      [HealthyEnv EXCEPT !.reply = UsefulReply],
      HealthyEnv,
      [HealthyEnv EXCEPT !.reply = ShortReply, !.stdin = [eof |-> FALSE, line |-> <<>>]],
      [HealthyEnv EXCEPT !.reply = ShortReply, !.stdin = [eof |-> TRUE, line |-> <<>>]],
      [HealthyEnv EXCEPT !.embed_ok = FALSE] }

\* a request has arrived: the body, the shop tables, whether the shop is
\* open, the generator's collaborators and the draw of random.choice
InitShopify ==
    /\ conv = NewHistory(DEFAULT_MAX_HISTORY, TRUE)
    /\ added = <<>>
    /\ clock = 0
    /\ calls = 0
    /\ \E req \in ShopifyRequests, store \in ShopStores, open \in BOOLEAN,
          env \in ShopifyEnvs, pick \in 1..Len(GeneralResponses) :
        last = [op |-> "shopify_request", req |-> req, store |-> store, open |-> open,
                env |-> env, pick |-> pick]
    /\ sessions = NoUsers
    /\ yielded = NoYield
    /\ pc = "idle"
    /\ events = <<>>
    /\ tickets_file = <<>>
    /\ sent = <<>>

\* shopify_chat serves the request
ShopifyChat ==
    /\ last.op = "shopify_request"
    /\ LET req == last.req
           r == ShopifyChatResult(req, last.store, last.open, last.env, last.pick, clock)
           shop == ValidateShopifyStore(req)
           message == Strip(req.json.message)
           context == IF "context" \in DOMAIN req.json THEN req.json.context ELSE NoConfig
       IN  last' = IF ~r.entered
                   THEN [op |-> "shopify_chat", entered |-> FALSE, code |-> r.code,
                         payload |-> r.payload]
                   ELSE [op |-> "shopify_chat", entered |-> TRUE, code |-> r.code,
                         payload |-> r.payload,
                         message |-> message,
                         products |-> IF shop \in DOMAIN last.store
                                      THEN last.store[shop].products ELSE <<>>,
                         semantic |-> GenerateChatbotResponse(
                                          message,
                                          IF "session_id" \in DOMAIN context
                                          THEN context.session_id ELSE "None",
                                          <<>>, DEFAULT_MAX_HISTORY, last.env, clock).payload]
    /\ calls' = calls + 1
    /\ UNCHANGED <<tickets_file, sent, conv, added, clock, sessions, yielded, pc, events>>

NextShopify == ShopifyChat

SpecShopify == InitShopify /\ [][NextShopify]_vars

(***************************************************************************)
(* Properties of ConversationHistory (under SpecHistory).                  *)
(***************************************************************************)
IsSuffix(t, s) == Len(t) <= Len(s) /\ SubSeq(s, Len(s) - Len(t) + 1, Len(s)) = t

\* C3: on a history created with max_history = N >= 1, after every add_exchange
\* call (and between calls) len(get_full_history()) <= N.
C3_HistoryBound ==
    conv.max_history >= 1 => Len(conv.history) <= conv.max_history

\* an add_exchange call has just evicted: more exchanges were added than fit
C3_Witness ==
    /\ last.op = "add_exchange"
    /\ Len(added) > conv.max_history
    /\ Len(conv.history) = conv.max_history

\* C4: after k add_exchange calls the history is exactly the last min(k, N)
\* exchanges added, oldest first; reads in between change nothing, so what is
\* evicted is the oldest added exchange.
C4_MostRecentWindow ==
    LET k == Len(added)
        kept == Min(k, conv.max_history)
    IN  conv.history = SubSeq(added, k - kept + 1, k)

\* max_history = 2, three exchanges A, B, C added: the history is [B, C]
C4_Witness ==
    /\ conv.max_history = 2
    /\ Len(added) = 3
    /\ conv.history = <<added[2], added[3]>>
    /\ added[1] # added[2]

\* C9: for max_chars = N >= 0, get_context returns at most N + len(marker)
\* code points, and the result carries the truncation marker only when the
\* untruncated transcript is longer than N (otherwise it is that transcript).
C9_ContextLength ==
    (last.op = "get_context" /\ last.max_chars >= 0) =>
        LET untruncated == IF conv.history = <<>> THEN <<>>
                           ELSE FullTranscript(conv.history)
        IN  /\ Len(last.result) <= last.max_chars + Len(TRUNCATION_MARKER)
            /\ IsSuffix(TRUNCATION_MARKER, last.result)
                  => Len(untruncated) > last.max_chars
            /\ Len(untruncated) <= last.max_chars => last.result = untruncated

\* a transcript longer than max_chars was cut to max_chars and marked
C9_Witness ==
    /\ last.op = "get_context"
    /\ last.max_chars > 0
    /\ Len(FullTranscript(conv.history)) > last.max_chars
    /\ Len(last.result) = last.max_chars + Len(TRUNCATION_MARKER)
    /\ IsSuffix(TRUNCATION_MARKER, last.result)

\* C10: on a history that retains no exchange, get_context() returns the
\* empty string and get_full_history() the empty sequence.
C10_EmptyHistory ==
    conv.history = <<>> =>
        /\ last.op = "get_context" => last.result = <<>>
        /\ last.op = "get_full_history" => last.result = <<>>

\* get_context answered "" on a history emptied by clear_history after adds
C10_Witness ==
    /\ clock > 0
    /\ conv.history = <<>>
    /\ last.op = "get_context"
    /\ last.max_chars = DEFAULT_MAX_CHARS
    /\ last.result = <<>>

(***************************************************************************)
(* Properties of the mirror write (under SpecMirror).                      *)
(***************************************************************************)
\* C12: whatever fails in the mirror write (embedding, upsert, verification, a
\* missing index handle), add_exchange does not raise, and the in-memory
\* history is what it is with mirroring disabled: the last min(k, N)
\* exchanges added, at every step of the write and after it.
C12_MirrorFailureHarmless ==
    /\ last.op = "add_exchange" => ~last.raised
    /\ LET k == Len(added)
           kept == Min(k, conv.max_history)
       IN  conv.history = SubSeq(added, k - kept + 1, k)

C12_Witness ==
    /\ pc = "idle"
    /\ last.op = "add_exchange"
    /\ last.mirror = "failed"
    /\ ~last.raised
    /\ conv.use_pinecone
    /\ Len(added) > conv.max_history
    /\ conv.history[Len(conv.history)] = added[Len(added)]

\* C13: with mirroring enabled, add_exchange returns to its caller without
\* waiting for the mirror write or its verification: no step of the write
\* has run on the caller's thread when the call returns.
C13_MirrorNotAwaited ==
    (pc = "idle" /\ last.op = "add_exchange" /\ conv.use_pinecone) =>
        last.waited_for = <<>>

(***************************************************************************)
(* Properties of generate_chatbot_response (under SpecCore).               *)
(***************************************************************************)
\* C1: when the completion call of the provider raises, generate_chatbot_response
\* raises nothing and returns a payload with error_flag = true,
\* error_type = "generation_error", a non-empty response and sources = [].
C1_ProviderFailurePayload ==
    (last.op = "generate_chatbot_response" /\ last.completion_raised) =>
        /\ ~last.raised
        /\ "error_flag" \in DOMAIN last.payload
        /\ last.payload.error_flag = TRUE
        /\ "error_type" \in DOMAIN last.payload
        /\ last.payload.error_type = "generation_error"
        /\ last.payload.response # <<>>
        /\ last.payload.sources = <<>>

\* C2: a failure while building the clients, in the embedding call, in the
\* index query or while formatting the matches is not raised to the caller:
\* the call returns the degraded payload (the fixed apology, sources = []).
C2_FailuresDegrade ==
    (last.op = "generate_chatbot_response"
        /\ last.failed_at \in {"construct", "embed", "query", "format"}) =>
        /\ ~last.raised
        /\ DOMAIN last.payload = {"response", "sources", "provider"}
        /\ last.payload.response = ERROR_RESPONSE
        /\ last.payload.response # <<>>
        /\ last.payload.sources = <<>>
        /\ last.payload.provider = "claude"

C2_Witness ==
    /\ last.op = "generate_chatbot_response"
    /\ last.failed_at = "format"
    /\ last.candidates = <<MatchBroken>>
    /\ ~last.raised
    /\ last.payload.response = ERROR_RESPONSE
    /\ last.payload.sources = <<>>

\* C5: with the relevance threshold T fixed (0.80, in hundredths here), the
\* sources of a successful payload are exactly the retrieved candidates whose
\* score is at least T; a candidate scoring 0.40 is not a source.
C5_SourcesAboveThreshold ==
    (last.op = "generate_chatbot_response" /\ ~last.raised /\ last.failed_at = "none") =>
        LET T == 80
            relevant == { i \in 1..Len(last.candidates) : last.candidates[i].score >= T }
        IN  { last.payload.sources[i].title : i \in 1..Len(last.payload.sources) }
                = { last.candidates[i].metadata.title : i \in relevant }

RECURSIVE SplitLines(_)
\* text.split("\n")
SplitLines(text) ==
    IF \A i \in 1..Len(text) : text[i] # "\n" THEN <<text>>
    ELSE LET i == CHOOSE j \in 1..Len(text) :
                      text[j] = "\n" /\ \A k \in 1..(j - 1) : text[k] # "\n"
         IN  <<SubSeq(text, 1, i - 1)>> \o SplitLines(SubSeq(text, i + 1, Len(text)))

IsPrefix(t, s) == Len(t) <= Len(s) /\ SubSeq(s, 1, Len(t)) = t

\* the lines of a block that announce a discount
DiscountLines(content) ==
    SelectSeq(SplitLines(content),
              LAMBDA line : IsSuffix(<<"%", " ", "O", "F", "F", ")">>, line))

\* C16: a match with the active-sale flag set and n >= 1 sale records is
\* rendered with exactly min(n, 2) discount lines, in record order, each with
\* the record's variant_title and its stored discount_percent; without the
\* flag, or without records, the block has no discount line.
C16_SaleLines ==
    last.op = "similarity_search" =>
        LET md == last.match.metadata
            records == md.sale_info.records
            flagged == "has_active_sale" \in DOMAIN md /\ md.has_active_sale = "True"
            lines == DiscountLines(last.document.page_content)
        IN  /\ (flagged /\ md.sale_info.valid /\ records # <<>>) =>
                /\ Len(lines) = Min(Len(records), 2)
                /\ \A i \in 1..Len(lines) :
                    /\ IsPrefix(Decimal(i) \o <<".", " ">> \o records[i].variant_title
                                \o <<":">>, lines[i])
                    /\ IsSuffix(<<"(">> \o Decimal(records[i].discount_percent)
                                \o <<"%", " ", "O", "F", "F", ")">>, lines[i])
            /\ (~flagged \/ records = <<>>) => lines = <<>>

C16_Witness ==
    /\ last.op = "similarity_search"
    /\ last.match.metadata.sale_info.valid
    /\ "has_active_sale" \in DOMAIN last.match.metadata
    /\ last.match.metadata.has_active_sale = "True"
    /\ last.match.metadata.sale_info.records = <<SaleStale, SaleA, SaleB>>
    /\ Len(DiscountLines(last.document.page_content)) = 2
    /\ IsSuffix(<<"(", "2", "5", "%", " ", "O", "F", "F", ")">>,
                DiscountLines(last.document.page_content)[1])

(***************************************************************************)
(* Properties of one request, step by step (under SpecRequest).            *)
(***************************************************************************)
Count(log, e) == Cardinality({i \in 1..Len(log) : log[i] = e})

Before(log, a, b) ==
    \A i \in 1..Len(log) : log[i] = b => \E j \in 1..(i - 1) : log[j] = a

\* C14: a request calls the completion provider at most once, whether the
\* call succeeds or raises.
C14_SingleCompletion ==
    /\ Count(events, "completion") <= 1
    /\ last.op = "generate_chatbot_response" =>
           last.provider_calls = Count(events, "completion")

C14_Witness ==
    /\ pc = "idle"
    /\ last.op = "generate_chatbot_response"
    /\ last.returned
    /\ last.completion_raised
    /\ Count(events, "completion") = 1
    /\ last.payload.response = CLAUDE_APOLOGY

\* C15: a request passes RECEIVED, RETRIEVING, PROMPTING, GENERATING in that
\* order and ends in exactly one of SUCCEEDED, DEGRADED; the provider is
\* called only after retrieval returned, the conversation context is read
\* before the exchange is appended, and the exchange is appended only after
\* the completion call returned.
C15_PhaseOrder ==
    LET phases == SelectSeq(events, LAMBDA x : x \in {"RECEIVED", "RETRIEVING",
                                                     "PROMPTING", "GENERATING"})
        ended == SelectSeq(events, LAMBDA x : x \in Outcomes)
    IN  /\ \E n \in 0..Len(PhaseOrder) : phases = SubSeq(PhaseOrder, 1, n)
        /\ Len(ended) <= 1
        /\ ended # <<>> => events[Len(events)] \in Outcomes
        /\ (pc = "idle" /\ last.op = "generate_chatbot_response") => Len(ended) = 1
        /\ pc # "idle" => ended = <<>>
        /\ Before(events, "retrieved", "completion")
        /\ Before(events, "read_context", "append")
        /\ Before(events, "completion", "append")

C15_Witness ==
    /\ pc = "idle"
    /\ last.op = "generate_chatbot_response"
    /\ SelectSeq(events, LAMBDA x : x \in {"RECEIVED", "RETRIEVING", "PROMPTING",
                                           "GENERATING"} \cup Outcomes)
           = PhaseOrder \o <<"SUCCEEDED">>
    /\ Count(events, "append") = 1
    /\ Len(conv.history) = Min(Len(last.before) + 1, conv.max_history)

\* C17: every candidate the index returned is rendered into the product
\* context of the prompt, whatever its score: the block of each one is in
\* the context, in the order of the candidates.
C17_AllCandidatesInPrompt ==
    (last.op = "generate_chatbot_response" /\ last.provider_calls = 1) =>
        /\ \A i \in 1..Len(last.candidates) :
              Contains(last.prompt.context,
                       TITLE_LABEL \o last.candidates[i].metadata.title \o <<"\n">>
                       \o CATEGORY_LABEL \o last.candidates[i].metadata.category \o <<"\n">>)
        /\ Cardinality({i \in 1..(Len(last.prompt.context) - Len(TITLE_LABEL) + 1) :
                           SubSeq(last.prompt.context, i, i + Len(TITLE_LABEL) - 1)
                               = TITLE_LABEL})
              = Len(last.candidates)

C17_Witness ==
    /\ last.op = "generate_chatbot_response"
    /\ last.provider_calls = 1
    /\ last.candidates = <<MatchHigh, MatchLow>>
    /\ MatchLow.score < 80
    /\ Contains(last.prompt.context, TITLE_LABEL \o MatchLow.metadata.title \o <<"\n">>)

\* C18: the core never invokes the support ticket creator: no call of
\* generate_chatbot_response creates a ticket, whatever the query.
C18_CoreCreatesNoTicket ==
    last.op = "generate_chatbot_response" => last.tickets = <<>>

\* C19: the core calls the feedback recorder only with synthetic error
\* feedback (rating 1, the fixed apology) for a request that degraded, never
\* for a request that succeeded, and a failing recorder never changes the
\* payload returned.
C19_OnlyErrorFeedback ==
    last.op = "generate_chatbot_response" =>
        /\ last.failed_at = "none" => last.recorded = <<>>
        /\ \A i \in 1..Len(last.recorded) :
              last.recorded[i].rating = 1 /\ last.recorded[i].response = ERROR_RESPONSE
        /\ last.failed_at # "recorder"

(***************************************************************************)
(* Properties of the chat API (under SpecApi).                             *)
(***************************************************************************)
\* C6: when the message of an initialised user contains a hand-off keyword,
\* in any letter case, the payload returned for it carries
\* detected_intent = "intent_to_handoff".
C6_KeywordYieldsHandoff ==
    (last.op = "handle_message" /\ last.answered
        /\ IsHumanRequest(last.data.message)) =>
        IntentOf(last.payload) = "intent_to_handoff"

C8_HealthyExchangeStored ==
    (last.op = "handle_message" /\ last.answered /\ last.all_answer) =>
        /\ "error_flag" \notin DOMAIN last.payload
        /\ LET history == sessions[last.data.user_id].history
           IN  /\ history # <<>>
               /\ history[Len(history)].query = Strip(last.data.message)
               /\ history[Len(history)].response = last.payload.response

\* what FIFO eviction may do to a history that received appends: a tail of
\* the old window opens the new one, and entries left the front only when the
\* new window is full
KeptModuloEviction(old, new, max_history) ==
    \E k \in 0..Len(old) :
        /\ IsPrefix(SubSeq(old, k + 1, Len(old)), new)
        /\ k > 0 => Len(new) = max_history

C24_RejectedMessageInert ==
    [][(last'.op = "handle_message" /\ calls' = calls + 1
        /\ (~last'.had_session \/ Strip(last'.data.message) = <<>>)) =>
           /\ ~last'.invoked
           /\ sessions' = sessions]_vars

\* a message for an unknown user id was refused while another session exists
C24_Witness ==
    /\ last.op = "handle_message"
    /\ last.data.has_json /\ last.data.user_id # "" /\ ~last.had_session
    /\ last.code = 400
    /\ sessions # NoUsers
    /\ last.data.user_id \notin DOMAIN sessions

\* C23: a feedback submission with an integer rating in 1..5 that follows a
\* handled message of the same session is accepted and hands the query and
\* the response of that exchange to the feedback recorder; a submission with
\* an unknown session, a rating outside 1..5 or an empty history is rejected
\* and records nothing.
C23_FeedbackAfterMessage ==
    [][(last'.op = "handle_feedback" /\ calls' = calls + 1 /\ last'.data.has_json) =>
         /\ (/\ last.op = "handle_message" /\ last.answered /\ last.all_answer
             /\ last'.data.user_id = last.data.user_id
             /\ ~RatingInvalid(last'.data.rating))
            => /\ last'.code = 200
               /\ last'.recorded # NothingRecorded
               /\ last'.recorded.query = Strip(last.data.message)
               /\ last'.recorded.response = last.payload.response
         /\ (\/ ~last'.had_session
             \/ RatingInvalid(last'.data.rating)
             \/ sessions[last'.data.user_id].history = <<>>)
            => /\ last'.code = 400
               /\ last'.recorded = NothingRecorded]_vars

\* the user id a recorded init or message request acted for
RequestUser(l) ==
    IF l.op = "init_chat" /\ l.code = 200 THEN l.payload.user_id ELSE l.data.user_id

C27_DegradedKeepsHistory ==
    (/\ last.op = "generate_chatbot_response"
     /\ last.passed
     /\ ~last.raised
     /\ last.payload # NoPayload
     /\ last.payload.response = ERROR_RESPONSE
     /\ last.payload.sources = <<>>) =>
        last.after = last.before

(***************************************************************************)
(* Properties of interleaved add_exchange calls (under SpecThreads).       *)
(***************************************************************************)
\* C28: with add_exchange calls interleaved at their statements, the length
\* never exceeds max_history plus the number of calls that appended and have
\* not finished, it is at most max_history once all calls have finished, and
\* no exchange is removed while the length is at most max_history.
C28_InterleavedWindow ==
    /\ [](Len(conv.history) <= conv.max_history + Cardinality(Appending))
    /\ []((Appending = {}) => Len(conv.history) <= conv.max_history)
    /\ [][Len(conv'.history) < Len(conv.history) =>
            Len(conv.history) > conv.max_history]_vars

(***************************************************************************)
(* Termination of a request (under SpecWait).                              *)
(***************************************************************************)
\* C22: every request that was entered eventually ends in SUCCEEDED or
\* DEGRADED; none waits forever on a provider or on any other input.
C22_RequestEnds ==
    (pc # "idle") ~>
        (pc = "idle" /\ events # <<>> /\ events[Len(events)] \in Outcomes)

(***************************************************************************)
(* Properties of the support endpoint (under SpecSupport).                 *)
(***************************************************************************)
\* the request reached create_support_ticket with a contact information that
\* is not the valid one
InvalidContactRequest(l) ==
    /\ l.op = "request_support"
    /\ l.data.has_json /\ l.had_session /\ l.data.contact_is_dict
    /\ RequiredContactKeys \subseteq DOMAIN l.data.contact_info
    /\ l.data.contact_info # ValidContact

C30_NoTicketLost ==
    (\A t \in Threads : pc[t].at \in {"idle", "done"}) =>
        \A i \in 1..Len(events) :
            \E j \in 1..Len(tickets_file) : tickets_file[j] = events[i]

(***************************************************************************)
(* Properties of concurrent request handlers (under SpecHandlers).         *)
(***************************************************************************)
\* C21: access to a session's history is mutually exclusive per user id: at
\* no time are two request handlers for the same user id both between
\* reading the session's history from the map and finishing their update.
C21_MutualExclusion ==
    \A u \in DOMAIN sessions : Cardinality(Holding(u)) <= 1

\* the products of the last request that the local search matches, best first
LocallyMatched ==
    SortByRelevance(KeepScored(Lower(last.message), last.products, DEFAULT_THRESHOLD))

\* C26: when the semantic generator's reply is longer than 50 characters and
\* the shop has synced products, the request is answered with that reply,
\* detected_intent "semantic_knowledge", the semantic sources and at most 3
\* of the locally matched products as suggestions, and nothing is raised.
C26_SemanticReplyWithSuggestions ==
    (/\ last.op = "shopify_chat"
     /\ last.entered
     /\ Len(last.semantic.response) > SEMANTIC_MIN
     /\ last.products # <<>>)
    => /\ last.code = 200
       /\ last.payload.success
       /\ last.payload.response = last.semantic.response
       /\ last.payload.detected_intent = "semantic_knowledge"
       /\ last.payload.sources = last.semantic.sources
       /\ Len(last.payload.suggested_products) <= 3
       /\ \A i \in 1..Len(last.payload.suggested_products) :
              \E j \in 1..Len(LocallyMatched) :
                  last.payload.suggested_products[i] = LocallyMatched[j]

====
